---- MODULE Spec2Model ----
(***************************************************************************)
(* A model of the py-marshal unmarshaler (src/src/read.rs, src/src/lib.rs, *)
(* src/src/utils.rs).  The decoder is a recursive descent over a byte      *)
(* source; the model keeps the recursion as an explicit stack of open      *)
(* r_object calls, and takes one step per r_object call entered or left.   *)
(***************************************************************************)
EXTENDS Integers, Sequences, FiniteSets, TLC

\* ------------------------------------------------------------------ bounds
\* Number of wire tokens (records or record headers) in a generated input.
MaxTokens == 4

\* --------------------------------------------------------- program constants
FLAG_REF == 128
Depth_MAX == 900

\* The type table of lib.rs: variant name |-> type code.
Type ==
  [ Null |-> 48, None |-> 78, False |-> 70, True |-> 84, StopIter |-> 83,
    Ellipsis |-> 46, Int |-> 105, Int64 |-> 73, Float |-> 102,
    BinaryFloat |-> 103, Complex |-> 120, BinaryComplex |-> 121,
    Long |-> 108, String |-> 115, Interned |-> 116, Ref |-> 114,
    Tuple |-> 40, List |-> 91, Dict |-> 123, Code |-> 99, Unicode |-> 117,
    Unknown |-> 63, Set |-> 60, FrozenSet |-> 62, Ascii |-> 97,
    AsciiInterned |-> 65, SmallTuple |-> 41, ShortAscii |-> 122,
    ShortAsciiInterned |-> 90 ]

\* Type::from_u8 (derive(FromPrimitive)): the variant with that code, if any.
Type_from_u8(c) ==
  IF \E n \in DOMAIN Type : Type[n] = c
    THEN [some |-> TRUE, v |-> CHOOSE n \in DOMAIN Type : Type[n] = c]
    ELSE [some |-> FALSE]

\* ------------------------------------------------------------ small helpers
Ok(v) == [ok |-> TRUE, v |-> v]
Err(e) == [ok |-> FALSE, err |-> e]
\* A failed read: the error and the cursor where reading stopped.
ErrAt(e, pos) == [ok |-> FALSE, err |-> e, pos |-> pos]

RECURSIVE Pow2(_)
Pow2(n) == IF n = 0 THEN 1 ELSE 2 * Pow2(n - 1)

\* The eight bits of a byte, least significant first.
BitsOfByte(b) == [i \in 1..8 |-> (b \div Pow2(i - 1)) % 2]

\* Little-endian bytes to bits, least significant first.
RECURSIVE BitsOfBytes(_)
BitsOfBytes(bs) ==
  IF bs = <<>> THEN <<>> ELSE BitsOfByte(Head(bs)) \o BitsOfBytes(Tail(bs))

\* Drop the most significant zero bits (the canonical magnitude of a BigUint).
RECURSIVE TrimBits(_)
TrimBits(bits) ==
  IF bits = <<>> THEN <<>>
  ELSE IF bits[Len(bits)] = 0 THEN TrimBits(SubSeq(bits, 1, Len(bits) - 1))
  ELSE bits

\* bits + 1 modulo 2^Len(bits).
RECURSIVE IncBits(_)
IncBits(bits) ==
  IF bits = <<>> THEN <<>>
  ELSE IF Head(bits) = 0 THEN <<1>> \o Tail(bits)
  ELSE <<0>> \o IncBits(Tail(bits))

\* Two's-complement negation on a fixed width.
NegBits(bits) == IncBits([i \in 1..Len(bits) |-> 1 - bits[i]])

\* ------------------------------------------------------------------ errors
IoError == [kind |-> "Io", io |-> "UnexpectedEof"]
InvalidType(spec) == [kind |-> "InvalidType", spec |-> spec]
RecursionLimitExceeded == [kind |-> "RecursionLimitExceeded"]
DigitOutOfRange(d) == [kind |-> "DigitOutOfRange", digit |-> d]
UnnormalizedLong == [kind |-> "UnnormalizedLong"]
UnexpectedNull == [kind |-> "UnexpectedNull"]
Unhashable(x) == [kind |-> "Unhashable", obj |-> x]
TypeError(x) == [kind |-> "TypeError", obj |-> x]
InvalidRef == [kind |-> "InvalidRef"]
Utf8Error == [kind |-> "Utf8"]
ParseFloatError == [kind |-> "ParseFloat"]
\* Not an Error value: the thread panics and no Result is returned.
Panic(msg) == [kind |-> "Panic", msg |-> msg]

\* --------------------------------------------------------- reader primitives
\* A reader result is Ok(value) extended with the new cursor, or Err(e).
Read(v, pos) == [ok |-> TRUE, v |-> v, pos |-> pos]

\* read_exact over the byte source: n bytes from the cursor, or unexpected EOF.
read_exact(rd, pos, n) ==
  IF n <= Len(rd) - pos THEN Read(SubSeq(rd, pos + 1, pos + n), pos + n)
  ELSE ErrAt(IoError, pos)

\* define_r!: the little-endian bytes of one fixed-width scalar.
r_byte(rd, pos) ==
  LET from_le_bytes(r) == IF r.ok THEN Read(r.v[1], r.pos) ELSE r
  IN from_le_bytes(read_exact(rd, pos, 1))
r_short(rd, pos) ==
  LET from_le_bytes(r) == IF r.ok THEN Read(r.v[1] + 256 * r.v[2], r.pos) ELSE r
  IN from_le_bytes(read_exact(rd, pos, 2))
r_long(rd, pos) == read_exact(rd, pos, 4)
r_long64(rd, pos) == read_exact(rd, pos, 8)
r_float_bin(rd, pos) == read_exact(rd, pos, 8)

\* `u32 as usize`.  The value is exact below 2^31; from 2^31 on it is held at
\* 2^31 - 1, which is still larger than the length of any byte source here.
as_usize(b) ==
  IF b[4] >= 128 THEN 2147483647
  ELSE b[1] + 256 * b[2] + 65536 * b[3] + 16777216 * b[4]

r_bytes(n, rd, pos) == read_exact(rd, pos, n)

\* std::str::from_utf8: well-formed UTF-8 (no overlong forms, no surrogates,
\* nothing above U+10FFFF).
RECURSIVE from_utf8_ok(_)
from_utf8_ok(bs) ==
  IF bs = <<>> THEN TRUE
  ELSE LET b == bs[1]
           n == Len(bs)
           cont(i) == i <= n /\ bs[i] >= 128 /\ bs[i] <= 191
       IN IF b < 128 THEN from_utf8_ok(Tail(bs))
          ELSE IF b >= 194 /\ b <= 223
            THEN cont(2) /\ from_utf8_ok(SubSeq(bs, 3, n))
          ELSE IF b >= 224 /\ b <= 239
            THEN /\ cont(2) /\ cont(3)
                 /\ (b = 224 => bs[2] >= 160)
                 /\ (b = 237 => bs[2] <= 159)
                 /\ from_utf8_ok(SubSeq(bs, 4, n))
          ELSE IF b >= 240 /\ b <= 244
            THEN /\ cont(2) /\ cont(3) /\ cont(4)
                 /\ (b = 240 => bs[2] >= 144)
                 /\ (b = 244 => bs[2] <= 143)
                 /\ from_utf8_ok(SubSeq(bs, 5, n))
          ELSE FALSE

\* r_string without from_utf8: the bytes as they are.
r_string_unchecked(n, rd, pos) == r_bytes(n, rd, pos)

r_string(n, rd, pos) ==
  LET from_utf8(r) ==
        IF ~r.ok THEN r
        ELSE IF from_utf8_ok(r.v) THEN r ELSE ErrAt(Utf8Error, r.pos)
  IN from_utf8(r_bytes(n, rd, pos))

\* ------------------------------------------------------------------ floats
\* An f64 is kept as its eight little-endian bytes (IEEE-754 binary64).
f64_exp(f) == (f[8] % 128) * 16 + (f[7] \div 16)
f64_frac_zero(f) == f[7] % 16 = 0 /\ \A i \in 1..6 : f[i] = 0
f64_is_nan(f) == f64_exp(f) = 2047 /\ ~f64_frac_zero(f)
f64_is_zero(f) == f64_exp(f) = 0 /\ f64_frac_zero(f)
\* The == of f64: NaN equals nothing, +0.0 equals -0.0.
f64_eq(f, g) ==
  /\ ~f64_is_nan(f) /\ ~f64_is_nan(g)
  /\ (f = g \/ (f64_is_zero(f) /\ f64_is_zero(g)))

\* Sixty-four bits, least significant first, to eight bytes.
BytesOfBits(bits) ==
  [k \in 1..(Len(bits) \div 8) |->
     LET b(i) == bits[8 * (k - 1) + i]
     IN b(1) + 2 * b(2) + 4 * b(3) + 8 * b(4) + 16 * b(5) + 32 * b(6)
        + 64 * b(7) + 128 * b(8)]

\* The bits of a natural number below 2^31, least significant first.
RECURSIVE BitsOfNat(_)
BitsOfNat(n) == IF n = 0 THEN <<>> ELSE <<n % 2>> \o BitsOfNat(n \div 2)

\* The f64 with the given sign, biased exponent and 52 fraction bits.
f64_pack(neg, exp, frac) ==
  BytesOfBits(frac \o [i \in 1..11 |-> (exp \div Pow2(i - 1)) % 2]
              \o <<IF neg THEN 1 ELSE 0>>)

f64_zero(neg) == f64_pack(neg, 0, [i \in 1..52 |-> 0])
f64_inf(neg) == f64_pack(neg, 2047, [i \in 1..52 |-> 0])
f64_nan(neg) == f64_pack(neg, 2047, [i \in 1..52 |-> IF i = 52 THEN 1 ELSE 0])

\* The f64 of a natural number below 2^31 (always exact).
f64_of_nat(neg, n) ==
  IF n = 0 THEN f64_zero(neg)
  ELSE LET normal(bits, k) ==
             f64_pack(neg, 1023 + k,
                      [i \in 1..52 |-> IF i > 52 - k THEN bits[i - (52 - k)] ELSE 0])
           of_bits(bits) == normal(bits, Len(bits) - 1)
       IN of_bits(BitsOfNat(n))

IsDigit(c) == c >= 48 /\ c <= 57
AllDigits(s) == \A i \in 1..Len(s) : IsDigit(s[i])
ToLower(s) == [i \in 1..Len(s) |-> IF s[i] >= 65 /\ s[i] <= 90 THEN s[i] + 32 ELSE s[i]]

\* Value of a digit string; -1 once it no longer fits below 2^31.
RECURSIVE NatOfDigits(_, _)
NatOfDigits(s, acc) ==
  IF s = <<>> THEN acc
  ELSE IF acc > 214748363 THEN -1
  ELSE NatOfDigits(Tail(s), 10 * acc + (Head(s) - 48))

\* Position of the first byte of s that is in set cs, or 0.
FirstIn(s, cs) ==
  IF \E i \in 1..Len(s) : s[i] \in cs
    THEN CHOOSE i \in 1..Len(s) : s[i] \in cs /\ \A j \in 1..(i - 1) : s[j] \notin cs
    ELSE 0

\* f64::from_str.  The grammar is that of the standard library:
\*   [sign] ( inf | infinity | nan | digits [. digits] [e [sign] digits] )
\* with at least one digit in the mantissa.  Integers below 2^31, zeros,
\* infinities and NaN are converted to their bits; every other well-formed
\* literal is kept as the decimal text it was written with.
f64_from_str(s) ==
  LET neg == s /= <<>> /\ s[1] = 45
      number(ip, fp, expd, epos, dot) ==
        IF ~(/\ AllDigits(ip) /\ AllDigits(fp) /\ Len(ip) + Len(fp) >= 1
             /\ (epos /= 0 => (expd /= <<>> /\ AllDigits(expd))))
          THEN Err(ParseFloatError)
        ELSE IF epos = 0 /\ dot = 0 /\ NatOfDigits(ip, 0) >= 0
          THEN Ok([bits |-> f64_of_nat(neg, NatOfDigits(ip, 0))])
        ELSE Ok([dec |-> s])
      fraction(mant, expd, epos, dot) ==
        number(IF dot = 0 THEN mant ELSE SubSeq(mant, 1, dot - 1),
               IF dot = 0 THEN <<>> ELSE SubSeq(mant, dot + 1, Len(mant)),
               expd, epos, dot)
      exponent(mant, expo, epos) ==
        fraction(mant,
                 IF expo /= <<>> /\ expo[1] \in {43, 45} THEN Tail(expo) ELSE expo,
                 epos, FirstIn(mant, {46}))
      mantissa(low, epos) ==
        exponent(IF epos = 0 THEN low ELSE SubSeq(low, 1, epos - 1),
                 IF epos = 0 THEN <<>> ELSE SubSeq(low, epos + 1, Len(low)),
                 epos)
      literal(low) ==
        IF low = <<105, 110, 102>> \/ low = <<105, 110, 102, 105, 110, 105, 116, 121>>
          THEN Ok([bits |-> f64_inf(neg)])
        ELSE IF low = <<110, 97, 110>> THEN Ok([bits |-> f64_nan(neg)])
        ELSE mantissa(low, FirstIn(low, {101}))
  IN literal(ToLower(IF s /= <<>> /\ s[1] \in {43, 45} THEN Tail(s) ELSE s))

r_float_str(rd, pos) ==
  LET parsed(s, f) == IF f.ok THEN Read(f.v, s.pos) ELSE ErrAt(f.err, s.pos)
      from_str(s) == IF ~s.ok THEN s ELSE parsed(s, f64_from_str(s.v))
      text(n) == IF ~n.ok THEN n ELSE from_str(r_string(n.v, rd, n.pos))
  IN text(r_byte(rd, pos))

\* ---------------------------------------------------------------- integers
\* A BigInt is a sign and a magnitude; the magnitude is its bits, least
\* significant first, without leading zeros.
BigInt(sign, mag) ==
  IF sign = 0 \/ mag = <<>> THEN [sign |-> 0, mag |-> <<>>]
  ELSE [sign |-> sign, mag |-> mag]

\* BigInt::from on the scalar taken as unsigned (no `as i32`, `as i64`).
BigInt_from_unsigned(b) == BigInt(1, TrimBits(BitsOfBytes(b)))

\* BigInt::from(x as i32) and BigInt::from(x as i64) on the scalar's bytes.
BigInt_from_signed(b) ==
  LET from(bits) ==
        IF bits[Len(bits)] = 1 THEN BigInt(-1, TrimBits(NegBits(bits)))
        ELSE BigInt(1, TrimBits(bits))
  IN from(BitsOfBytes(b))

\* utils::sign_of on the i32 given by four bytes.
sign_of(b) ==
  IF b = <<0, 0, 0, 0>> THEN 0 ELSE IF b[4] >= 128 THEN -1 ELSE 1

\* `n.wrapping_abs() as u32` (then `as usize`) on the i32 given by four bytes.
wrapping_abs(b) ==
  IF b[4] < 128 THEN as_usize(b)
  ELSE as_usize(BytesOfBits(NegBits(BitsOfBytes(b))))

\* u16::leading_zeros.
leading_zeros(d) == 16 - Len(BitsOfNat(d))

\* `accum |= u64::from(thisdigit) << accumbits` on a 64-bit window.
OrShift(accum, d, sh) ==
  [k \in 1..64 |->
     IF k > sh /\ k - sh <= 16 /\ (d \div Pow2(k - sh - 1)) % 2 = 1
       THEN 1 ELSE accum[k]]

\* The `while accumbits >= 32` loop: st is [accum, accumbits, p].
RECURSIVE DrainLimbs(_)
DrainLimbs(st) ==
  IF st.accumbits >= 32
    THEN DrainLimbs([accum |-> SubSeq(st.accum, 33, 64) \o [i \in 1..32 |-> 0],
                     accumbits |-> st.accumbits - 32,
                     p |-> Append(st.p, SubSeq(st.accum, 1, 32))])
    ELSE st

\* The `for (i, &thisdigit)` loop from digit i on.
RECURSIVE PackDigits(_, _, _)
PackDigits(digits, i, st) ==
  IF i > Len(digits) THEN st
  ELSE PackDigits(digits, i + 1,
         DrainLimbs(
           [accum |-> OrShift(st.accum, digits[i], st.accumbits),
            accumbits |-> st.accumbits
                          + (IF i = Len(digits)
                               THEN 16 - leading_zeros(digits[i]) ELSE 15),
            p |-> st.p]))

RECURSIVE Flatten(_)
Flatten(ss) == IF ss = <<>> THEN <<>> ELSE Head(ss) \o Flatten(Tail(ss))

\* utils::biguint_from_pylong_digits: Ok(magnitude), or the panic of a failed
\* assert!.
biguint_from_pylong_digits(digits) ==
  IF digits = <<>> THEN Ok(<<>>)
  ELSE IF digits[Len(digits)] = 0 THEN Err(Panic("assert digits[len - 1] != 0"))
  ELSE LET finish(st) ==
             IF ~(st.accumbits < 32) THEN Err(Panic("assert accumbits < 32"))
             ELSE Ok(TrimBits(Flatten(
                    IF st.accumbits > 0 THEN Append(st.p, SubSeq(st.accum, 1, 32))
                    ELSE st.p)))
       IN finish(PackDigits(digits, 1,
                   [accum |-> [i \in 1..64 |-> 0], accumbits |-> 0, p |-> <<>>]))

\* The digit loop of r_pylong: `size` digits, each checked as it is read.
RECURSIVE r_pylong_digits(_, _, _, _)
r_pylong_digits(rd, pos, size, digits) ==
  IF size = 0 THEN Read(digits, pos)
  ELSE LET push(d) ==
             IF ~d.ok THEN d
             ELSE IF d.v > 32768 THEN ErrAt(DigitOutOfRange(d.v), d.pos)
             ELSE r_pylong_digits(rd, d.pos, size - 1, Append(digits, d.v))
       IN push(r_short(rd, pos))

\* r_pylong without the test of the last digit.
r_pylong_unchecked(rd, pos) ==
  LET from_biguint(n, ds, m) ==
        IF m.ok THEN Read(BigInt(sign_of(n.v), m.v), ds.pos)
        ELSE ErrAt(m.err, ds.pos)
      packed(n, ds) ==
        IF ~ds.ok THEN ds
        ELSE from_biguint(n, ds, biguint_from_pylong_digits(ds.v))
      sized(n) ==
        IF ~n.ok THEN n
        ELSE IF sign_of(n.v) = 0 THEN Read(BigInt(0, <<>>), n.pos)
        ELSE packed(n, r_pylong_digits(rd, n.pos, wrapping_abs(n.v), <<>>))
  IN sized(r_long(rd, pos))

r_pylong(rd, pos) ==
  LET from_biguint(n, ds, m) ==
        IF m.ok THEN Read(BigInt(sign_of(n.v), m.v), ds.pos)
        ELSE ErrAt(m.err, ds.pos)
      normalized(n, ds) ==
        IF ~ds.ok THEN ds
        ELSE IF ds.v[Len(ds.v)] = 0 THEN ErrAt(UnnormalizedLong, ds.pos)
        ELSE from_biguint(n, ds, biguint_from_pylong_digits(ds.v))
      sized(n) ==
        IF ~n.ok THEN n
        ELSE IF sign_of(n.v) = 0 THEN Read(BigInt(0, <<>>), n.pos)
        ELSE normalized(n, r_pylong_digits(rd, n.pos, wrapping_abs(n.v), <<>>))
  IN sized(r_long(rd, pos))

\* ------------------------------------------------------------ object model
\* Option<T>.
None_ == [some |-> FALSE]
Some(v) == [some |-> TRUE, v |-> v]

\* enum Obj.  List, Dict and Set are ArcRwLock handles: the value holds the
\* identity of the allocation and `heap` holds what is stored behind it.
Obj_None == [t |-> "None"]
Obj_StopIteration == [t |-> "StopIteration"]
Obj_Ellipsis == [t |-> "Ellipsis"]
Obj_Bool(b) == [t |-> "Bool", v |-> b]
Obj_Long(x) == [t |-> "Long", v |-> x]
Obj_Float(x) == [t |-> "Float", v |-> x]
Obj_Complex(re, im) == [t |-> "Complex", re |-> re, im |-> im]
Obj_Bytes(x) == [t |-> "Bytes", v |-> x]
Obj_String(x) == [t |-> "String", v |-> x]
Obj_Tuple(x) == [t |-> "Tuple", v |-> x]
Obj_List(id) == [t |-> "List", id |-> id]
Obj_Dict(id) == [t |-> "Dict", id |-> id]
Obj_Set(id) == [t |-> "Set", id |-> id]
Obj_FrozenSet(x) == [t |-> "FrozenSet", v |-> x]
Obj_Code(c) == [t |-> "Code", v |-> c]

is_none(x) == x.t = "None"

\* define_extract!: the payload, or the object itself as the error.
extract_string(x) == IF x.t = "String" THEN Ok(x.v) ELSE Err(x)
extract_bytes(x) == IF x.t = "Bytes" THEN Ok(x.v) ELSE Err(x)
extract_tuple(x) == IF x.t = "Tuple" THEN Ok(x.v) ELSE Err(x)

\* HashF64: PartialEq.
HashF64_eq(a, b) ==
  IF "bits" \in DOMAIN a /\ "bits" \in DOMAIN b
    THEN f64_eq(a.bits, b.bits) \/ (f64_is_nan(a.bits) /\ f64_is_nan(b.bits))
    ELSE a = b

\* A Hasher is what was written to it, write by write; finish is taken to be
\* one-to-one on it.  A write is [w, x]: w the bytes of a scalar write, x the
\* finish values whose XOR a write_u64 carries (those met an odd number of
\* times).
Write(bytes) == [w |-> bytes, x |-> {}]

\* impl Hash for HashF64 writing the bits of every float.
HashF64_hash_bits(a) ==
  IF "bits" \in DOMAIN a THEN <<Write(<<64>> \o a.bits)>>
  ELSE <<Write(<<0>> \o a.dec)>>

\* impl Hash for HashF64.
HashF64_hash(a) ==
  IF "bits" \in DOMAIN a
    THEN IF f64_is_nan(a.bits) THEN <<Write(<<8, 0>>)>>
         ELSE IF f64_is_zero(a.bits) THEN <<Write(<<8, 1>>)>>
         ELSE <<Write(<<64>> \o a.bits)>>
    ELSE <<Write(<<0>> \o a.dec)>>

\* The position of the variant in enum ObjHashable.
ObjHashable_discriminant(h) ==
  CASE h = "None" -> 0 [] h = "StopIteration" -> 1 [] h = "Ellipsis" -> 2
    [] h = "Bool" -> 3 [] h = "Long" -> 4 [] h = "Float" -> 5
    [] h = "Complex" -> 6 [] h = "String" -> 7 [] h = "Tuple" -> 8
    [] h = "FrozenSet" -> 9

RECURSIVE ObjHashable_hash(_)
RECURSIVE ObjHashable_eq(_, _)

\* HashSet::contains: the element is looked up by its hash and compared.
HashSet_contains(set, x) ==
  \E i \in 1..Len(set) :
    ObjHashable_hash(set[i]) = ObjHashable_hash(x) /\ ObjHashable_eq(set[i], x)

\* enum ObjHashable, derive(Hash), and impl Hash for HashableHashSet.
ObjHashable_hash(a) ==
  <<Write(<<ObjHashable_discriminant(a.h)>>)>> \o
  CASE a.h = "Bool" -> <<Write(<<IF a.v THEN 1 ELSE 0>>)>>
    [] a.h = "Long" -> <<Write(<<a.v.sign + 1, Len(a.v.mag)>> \o a.v.mag)>>
    [] a.h = "Float" -> HashF64_hash(a.v)
    [] a.h = "Complex" -> HashF64_hash(a.re) \o HashF64_hash(a.im)
    [] a.h = "String" -> <<Write(a.v \o <<255>>)>>
    [] a.h = "Tuple" ->
         <<Write(<<Len(a.v)>>)>>
           \o Flatten([i \in 1..Len(a.v) |-> ObjHashable_hash(a.v[i])])
    [] a.h = "FrozenSet" ->
         LET finish == [i \in 1..Len(a.v) |-> ObjHashable_hash(a.v[i])]
             odd(h) == Cardinality({i \in 1..Len(a.v) : finish[i] = h}) % 2 = 1
         IN << [w |-> <<64>>,
                x |-> {finish[i] : i \in {j \in 1..Len(a.v) : odd(finish[j])}}] >>
    [] OTHER -> <<>>

\* enum ObjHashable, derive(PartialEq).  A hashable value carries its variant
\* in field h; a HashSet is kept as its elements in insertion order, no two
\* of them equal.
ObjHashable_eq(a, b) ==
  /\ a.h = b.h
  /\ CASE a.h = "Float" -> HashF64_eq(a.v, b.v)
       [] a.h = "Complex" -> HashF64_eq(a.re, b.re) /\ HashF64_eq(a.im, b.im)
       [] a.h = "Tuple" ->
            /\ Len(a.v) = Len(b.v)
            /\ \A i \in 1..Len(a.v) : ObjHashable_eq(a.v[i], b.v[i])
       [] a.h = "FrozenSet" ->
            /\ Len(a.v) = Len(b.v)
            /\ \A i \in 1..Len(a.v) : HashSet_contains(b.v, a.v[i])
       [] OTHER -> a = b

\* HashSet::insert: an element already present is kept.
HashSet_insert(set, x) ==
  IF HashSet_contains(set, x) THEN set ELSE Append(set, x)

\* TryFrom<&Obj> reporting the tuple it was converting instead of passing on
\* the error of the element.
RECURSIVE ObjHashable_try_from_outer(_)
ObjHashable_try_from_outer(orig) ==
  CASE orig.t \in {"None", "StopIteration", "Ellipsis"} -> Ok([h |-> orig.t])
    [] orig.t \in {"Bool", "Long", "Float", "String"} ->
         Ok([h |-> orig.t, v |-> orig.v])
    [] orig.t = "Complex" ->
         Ok([h |-> "Complex", re |-> orig.re, im |-> orig.im])
    [] orig.t = "Tuple" ->
         LET conv == [i \in 1..Len(orig.v) |-> ObjHashable_try_from_outer(orig.v[i])]
         IN IF \A i \in 1..Len(orig.v) : conv[i].ok
              THEN Ok([h |-> "Tuple", v |-> [i \in 1..Len(orig.v) |-> conv[i].v]])
              ELSE Err(orig)
    [] orig.t = "FrozenSet" -> Ok([h |-> "FrozenSet", v |-> orig.v])
    [] OTHER -> Err(orig)

\* impl TryFrom<&Obj> for ObjHashable.  The error is the offending object.
RECURSIVE ObjHashable_try_from(_)
ObjHashable_try_from(orig) ==
  CASE orig.t \in {"None", "StopIteration", "Ellipsis"} -> Ok([h |-> orig.t])
    [] orig.t \in {"Bool", "Long", "Float", "String"} ->
         Ok([h |-> orig.t, v |-> orig.v])
    [] orig.t = "Complex" ->
         Ok([h |-> "Complex", re |-> orig.re, im |-> orig.im])
    [] orig.t = "Tuple" ->
         LET conv == [i \in 1..Len(orig.v) |-> ObjHashable_try_from(orig.v[i])]
             bad == {i \in 1..Len(orig.v) : ~conv[i].ok}
         IN IF bad = {} THEN Ok([h |-> "Tuple",
                                 v |-> [i \in 1..Len(orig.v) |-> conv[i].v]])
            ELSE conv[CHOOSE i \in bad : \A j \in bad : i <= j]
    [] orig.t = "FrozenSet" -> Ok([h |-> "FrozenSet", v |-> orig.v])
    [] OTHER -> Err(orig)

\* bitflags CodeFlags: the positions of the declared flag bits.
CodeFlags_all == (0..9) \cup (12..20)

\* Every bit of the u32 kept as a flag (from_bits_unchecked).
from_bits_unchecked(b) == {i \in 0..31 : BitsOfBytes(b)[i + 1] = 1}

\* CodeFlags::from_bits_truncate on the u32 given by four bytes.
from_bits_truncate(b) ==
  {i \in CodeFlags_all : BitsOfBytes(b)[i + 1] = 1}

\* ------------------------------------------------------------- the decoder
\* The decode state is the RFile of read.rs (readable with its cursor, depth,
\* refs, has_posonlyargcount), the allocations behind the ArcRwLock handles,
\* the open r_object calls, and the Result of marshal_load_ex once it has
\* returned.  A state record st is [pos, depth, refs, heap, stack, result];
\* depth is the strong count of the Depth handle.
Pending == [set |-> FALSE]
Done(r) == [set |-> TRUE] @@ r

Singleton == {"None", "StopIter", "Ellipsis", "False", "True"}
Composite == {"SmallTuple", "Tuple", "List", "Dict", "Set", "FrozenSet", "Code"}
VecType == {"SmallTuple", "Tuple", "List"}
Text4 == {"AsciiInterned", "Ascii", "Interned", "Unicode"}
Text1 == {"ShortAsciiInterned", "ShortAscii"}

\* Depth::try_clone refusing one level early (>= for >).
Depth_try_clone_early(count) ==
  IF count >= Depth_MAX THEN None_ ELSE Some(count + 1)

\* Depth::try_clone on a handle whose strong count is `count`.
Depth_try_clone(count) ==
  IF count > Depth_MAX THEN None_ ELSE Some(count + 1)

\* r_object validating the type code before it asks for the depth handle.
r_object_tag_type_first(rd, pos, count) ==
  LET typed(code, flag, type_u8, type_) ==
        IF ~type_.some THEN ErrAt(InvalidType(type_u8), code.pos)
        ELSE IF ~Depth_try_clone(count).some
          THEN ErrAt(RecursionLimitExceeded, code.pos)
        ELSE [ok |-> TRUE, flag |-> flag, type_ |-> type_.v, pos |-> code.pos]
      masked(code, flag, type_u8) ==
        typed(code, flag, type_u8, Type_from_u8(type_u8))
      flagged(code, flag) ==
        masked(code, flag, code.v - (IF flag THEN FLAG_REF ELSE 0))
      tagged(code) ==
        IF ~code.ok THEN code
        ELSE flagged(code, (code.v \div FLAG_REF) % 2 = 1)
  IN tagged(r_byte(rd, pos))

\* r_object looking the tag byte up in the type table with the flag bit on.
r_object_tag_unmasked(rd, pos, count) ==
  LET typed(code, flag, type_) ==
        IF ~type_.some THEN ErrAt(InvalidType(code.v), code.pos)
        ELSE [ok |-> TRUE, flag |-> flag, type_ |-> type_.v, pos |-> code.pos]
      tagged(code) ==
        IF ~code.ok THEN code
        ELSE IF ~Depth_try_clone(count).some
          THEN ErrAt(RecursionLimitExceeded, code.pos)
        ELSE typed(code, (code.v \div FLAG_REF) % 2 = 1, Type_from_u8(code.v))
  IN tagged(r_byte(rd, pos))

\* r_object up to the type dispatch: the tag byte, the depth handle, the flag
\* and the type.
r_object_tag(rd, pos, count) ==
  LET typed(code, flag, type_u8, type_) ==
        IF ~type_.some THEN ErrAt(InvalidType(type_u8), code.pos)
        ELSE [ok |-> TRUE, flag |-> flag, type_ |-> type_.v, pos |-> code.pos]
      masked(code, flag, type_u8) ==
        typed(code, flag, type_u8, Type_from_u8(type_u8))
      flagged(code, flag) ==
        masked(code, flag, code.v - (IF flag THEN FLAG_REF ELSE 0))
      tagged(code) ==
        IF ~code.ok THEN code
        ELSE IF ~Depth_try_clone(count).some
          THEN ErrAt(RecursionLimitExceeded, code.pos)
        ELSE flagged(code, (code.v \div FLAG_REF) % 2 = 1)
  IN tagged(r_byte(rd, pos))

\* Vec::with_capacity(n) asks for n elements of `size` bytes at once, before
\* any of them is read.  A request of more than isize::MAX bytes of a 32-bit
\* target panics there ("capacity overflow"); a 64-bit target hands it to the
\* allocator, which grants it or ends the process.
with_capacity_may_fail(n, size) ==
  LET isize_MAX == 2147483647 IN n > isize_MAX \div size

\* The Vec that the record at the cursor allocates from its count: r_vec for
\* Tuple and List (an Obj is at least 8 bytes), the u16 digits for Long.
r_object_with_capacity(rd, pos, count) ==
  LET request(e, l) ==
        IF ~l.ok THEN None_
        ELSE IF e.type_ \in {"Tuple", "List"}
          THEN Some([n |-> as_usize(l.v), size |-> 8])
        ELSE IF e.type_ = "Long" /\ sign_of(l.v) /= 0
          THEN Some([n |-> wrapping_abs(l.v), size |-> 2])
        ELSE None_
      arm(e) == IF ~e.ok THEN None_ ELSE request(e, r_long(rd, e.pos))
  IN arm(r_object_tag(rd, pos, count))

\* `let mut idx = match type_ { ... }`: the slot reserved before the contents
\* are read.  The result is the table and idx.
r_ref_reserve(type_, flag, table) ==
  IF type_ \in Composite /\ flag
    THEN [refs |-> Append(table, Obj_None), idx |-> Some(Len(table))]
    ELSE [refs |-> table, idx |-> None_]

\* The end of r_object without the arms that skip the singletons.
r_ref_insert_singletons(retval, idx, flag, table) ==
  IF ~retval.some THEN table
  ELSE IF flag /\ idx.some THEN [table EXCEPT ![idx.v + 1] = retval.v]
  ELSE IF flag THEN Append(table, retval.v)
  ELSE table

\* `match (&retval, idx)` at the end of r_object: the table after the value
\* was published.
r_ref_insert(retval, idx, flag, table) ==
  IF ~retval.some THEN table
  ELSE IF retval.v.t \in {"None", "StopIteration", "Ellipsis", "Bool"} THEN table
  ELSE IF flag /\ idx.some THEN [table EXCEPT ![idx.v + 1] = retval.v]
  ELSE IF flag THEN Append(table, retval.v)
  ELSE table

\* Two readers in sequence, for Complex.
r_complex(first, second) ==
  IF ~first.ok THEN first
  ELSE IF ~second.ok THEN second
  ELSE Read(Some(Obj_Complex(first.v, second.v)), second.pos)

\* The arms of `let retval = match type_` that read no nested record.
r_object_leaf(type_, rd, pos) ==
  LET long(r) ==
        IF r.ok THEN Read(Some(Obj_Long(BigInt_from_signed(r.v))), r.pos) ELSE r
      pylong(r) == IF r.ok THEN Read(Some(Obj_Long(r.v)), r.pos) ELSE r
      float(r) == IF r.ok THEN Read(Some(Obj_Float(r.v)), r.pos) ELSE r
      bits(r) == IF r.ok THEN Read([bits |-> r.v], r.pos) ELSE r
      complex(re) == r_complex(re, IF re.ok THEN r_float_str(rd, re.pos) ELSE re)
      bincomplex(re) ==
        r_complex(re, IF re.ok THEN bits(r_float_bin(rd, re.pos)) ELSE re)
      bytes(r) == IF r.ok THEN Read(Some(Obj_Bytes(r.v)), r.pos) ELSE r
      string(r) == IF r.ok THEN Read(Some(Obj_String(r.v)), r.pos) ELSE r
      sized_bytes(n) == IF n.ok THEN r_bytes(as_usize(n.v), rd, n.pos) ELSE n
      sized_string(n) == IF n.ok THEN r_string(as_usize(n.v), rd, n.pos) ELSE n
      short_string(n) == IF n.ok THEN r_string(n.v, rd, n.pos) ELSE n
  IN CASE type_ = "Null" -> Read(None_, pos)
       [] type_ = "None" -> Read(Some(Obj_None), pos)
       [] type_ = "StopIter" -> Read(Some(Obj_StopIteration), pos)
       [] type_ = "Ellipsis" -> Read(Some(Obj_Ellipsis), pos)
       [] type_ = "False" -> Read(Some(Obj_Bool(FALSE)), pos)
       [] type_ = "True" -> Read(Some(Obj_Bool(TRUE)), pos)
       [] type_ = "Int" -> long(r_long(rd, pos))
       [] type_ = "Int64" -> long(r_long64(rd, pos))
       [] type_ = "Long" -> pylong(r_pylong(rd, pos))
       [] type_ = "Float" -> float(r_float_str(rd, pos))
       [] type_ = "BinaryFloat" -> float(bits(r_float_bin(rd, pos)))
       [] type_ = "Complex" -> complex(r_float_str(rd, pos))
       [] type_ = "BinaryComplex" -> bincomplex(bits(r_float_bin(rd, pos)))
       [] type_ = "String" -> bytes(sized_bytes(r_long(rd, pos)))
       [] type_ \in Text4 -> string(sized_string(r_long(rd, pos)))
       [] type_ \in Text1 -> string(short_string(r_byte(rd, pos)))

\* The Type::Ref arm: the index, then the clone of the slot.
r_object_ref(rd, pos, table) ==
  LET get(n, i) ==
        IF ~(i < Len(table)) THEN ErrAt(InvalidRef, n.pos)
        ELSE IF is_none(table[i + 1]) THEN ErrAt(InvalidRef, n.pos)
        ELSE Read(Some(table[i + 1]), n.pos)
      index(n) == IF ~n.ok THEN n ELSE get(n, as_usize(n.v))
  IN index(r_long(rd, pos))

\* An open r_object call of a composite record: its type, flag and idx, the
\* offset of its tag, the children still to read (n), what was built so far
\* (items), the pending dict key, the set allocation, the scalar fields of a
\* code record, and whether its loop has ended.
Frame(type_, flag, idx, at, n) ==
  [type_ |-> type_, flag |-> flag, idx |-> idx, at |-> at, n |-> n,
   items |-> <<>>, key |-> None_, set |-> 0, hdr |-> <<>>,
   done |-> (type_ \in VecType \cup {"Set", "FrozenSet"} /\ n = 0)]

\* r_object_not_null taking Null for None.
r_object_not_null_lenient(retval) ==
  IF retval.some THEN Ok(retval.v) ELSE Ok(Obj_None)

\* r_object_not_null.
r_object_not_null(retval) ==
  IF retval.some THEN Ok(retval.v) ELSE Err(UnexpectedNull)

\* r_object_extract_* where a tuple of names with a wrong element reports the
\* tuple and not the element.
r_object_extract_outer(which, retval) ==
  LET map_err(r) == IF r.ok THEN r ELSE Err(TypeError(r.err))
      strings(x, r) ==
        IF ~r.ok THEN r
        ELSE IF \A i \in 1..Len(r.v) : extract_string(r.v[i]).ok
          THEN Ok([i \in 1..Len(r.v) |-> extract_string(r.v[i]).v])
        ELSE Err(TypeError(x.v))
      extract(x) ==
        IF ~x.ok THEN x
        ELSE CASE which = "bytes" -> map_err(extract_bytes(x.v))
               [] which = "string" -> map_err(extract_string(x.v))
               [] which = "tuple" -> map_err(extract_tuple(x.v))
               [] which = "tuple_string" -> strings(x, map_err(extract_tuple(x.v)))
  IN extract(r_object_not_null(retval))

\* r_object_extract_bytes / _tuple / _string / _tuple_string on the record
\* that was just read.
r_object_extract(which, retval) ==
  LET map_err(r) == IF r.ok THEN r ELSE Err(TypeError(r.err))
      collect(r, bad) ==
        IF bad = {}
          THEN Ok([i \in 1..Len(r.v) |-> extract_string(r.v[i]).v])
          ELSE Err(TypeError(r.v[CHOOSE i \in bad : \A j \in bad : i <= j]))
      strings(r) ==
        IF ~r.ok THEN r
        ELSE collect(r, {i \in 1..Len(r.v) : ~extract_string(r.v[i]).ok})
      extract(x) ==
        IF ~x.ok THEN x
        ELSE CASE which = "bytes" -> map_err(extract_bytes(x.v))
               [] which = "string" -> map_err(extract_string(x.v))
               [] which = "tuple" -> map_err(extract_tuple(x.v))
               [] which = "tuple_string" -> strings(map_err(extract_tuple(x.v)))
  IN extract(r_object_not_null(retval))

\* The object-valued fields of Code, in the order they are read.
CodeFields ==
  << "bytes", "tuple", "tuple_string", "tuple_string", "tuple_string",
     "tuple_string", "string", "string", "bytes" >>

\* r_vec: one turn of its loop on the record just read.  Gives the frame.
r_vec(f, retval) ==
  LET push(x) ==
        IF ~x.ok THEN x
        ELSE Ok([f EXCEPT !.items = Append(@, x.v), !.n = @ - 1,
                          !.done = (f.n = 1)])
  IN push(r_object_not_null(retval))

\* r_hashset_into: one turn of its loop on the record just read.  Gives the
\* set.
r_hashset_into(set, retval) ==
  LET insert(k) ==
        IF ~k.ok THEN Err(Unhashable(k.err)) ELSE Ok(HashSet_insert(set, k.v))
      convert(x) == IF ~x.ok THEN x ELSE insert(ObjHashable_try_from(x.v))
  IN convert(r_object_not_null(retval))

\* r_hashmap going on after a Null in value position (continue for break).
r_hashmap_continue(f, retval) ==
  IF ~f.key.some
    THEN IF ~retval.some THEN Ok([f EXCEPT !.done = TRUE])
         ELSE Ok([f EXCEPT !.key = retval])
    ELSE IF ~retval.some THEN Ok([f EXCEPT !.key = None_])
         ELSE Ok([f EXCEPT !.items = Append(@, <<f.key.v, retval.v>>),
                           !.key = None_])

\* r_hashmap: one read of its loop, in key position while no key is pending
\* and in value position otherwise.  Gives the frame.
r_hashmap(f, retval) ==
  IF ~f.key.some
    THEN IF ~retval.some THEN Ok([f EXCEPT !.done = TRUE])
         ELSE Ok([f EXCEPT !.key = retval])
    ELSE IF ~retval.some THEN Ok([f EXCEPT !.done = TRUE, !.key = None_])
         ELSE Ok([f EXCEPT !.items = Append(@, <<f.key.v, retval.v>>),
                           !.key = None_])

\* The Type::Code arm: the object-valued field just read, and firstlineno
\* after name.  Gives the frame and the cursor.
r_code_field(f, retval, rd, pos) ==
  LET lineno(x, line) ==
        IF ~line.ok THEN line
        ELSE Read([f EXCEPT !.items = Append(@, x.v),
                            !.hdr = Append(@, line.v)], line.pos)
      field(k, x) ==
        IF ~x.ok THEN ErrAt(x.err, pos)
        ELSE IF k = 8 THEN lineno(x, r_long(rd, pos))
        ELSE Read([f EXCEPT !.items = Append(@, x.v), !.done = (k = 9)], pos)
      nth(k) == field(k, r_object_extract(CodeFields[k], retval))
  IN nth(Len(f.items) + 1)

\* The caller's code between one nested r_object call and the next: what the
\* open call f does with the record its callee returned.  Gives the frame, the
\* cursor and the heap, or the error.
Continue(f, retval, rd, pos, hp) ==
  LET keep(g, q, h) == [ok |-> TRUE, frame |-> g, pos |-> q, heap |-> h]
      vec(r) == IF r.ok THEN keep(r.v, pos, hp) ELSE ErrAt(r.err, pos)
      set(r) ==
        IF r.ok
          THEN keep([f EXCEPT !.n = @ - 1, !.done = (f.n = 1)], pos,
                    [hp EXCEPT ![f.set].v = r.v])
          ELSE ErrAt(r.err, pos)
      frozenset(r) ==
        IF r.ok
          THEN keep([f EXCEPT !.items = r.v, !.n = @ - 1, !.done = (f.n = 1)],
                    pos, hp)
          ELSE ErrAt(r.err, pos)
      dict(r) == keep(r.v, pos, hp)
      code(r) == IF r.ok THEN keep(r.v, r.pos, hp) ELSE r
  IN CASE f.type_ \in VecType -> vec(r_vec(f, retval))
       [] f.type_ = "Set" -> set(r_hashset_into(hp[f.set].v, retval))
       [] f.type_ = "FrozenSet" -> frozenset(r_hashset_into(f.items, retval))
       [] f.type_ = "Dict" -> dict(r_hashmap(f, retval))
       [] f.type_ = "Code" -> code(r_code_field(f, retval, rd, pos))

\* The value a composite record returns once its children are read, with the
\* heap after the allocation of a new List or Dict.
Build(f, hp) ==
  CASE f.type_ \in {"SmallTuple", "Tuple"} -> [v |-> Obj_Tuple(f.items), heap |-> hp]
    [] f.type_ = "List" ->
         [v |-> Obj_List(Len(hp) + 1),
          heap |-> Append(hp, [t |-> "List", v |-> f.items])]
    [] f.type_ = "Dict" ->
         [v |-> Obj_Dict(Len(hp) + 1),
          heap |-> Append(hp, [t |-> "Dict", v |-> f.items])]
    [] f.type_ = "Set" -> [v |-> Obj_Set(f.set), heap |-> hp]
    [] f.type_ = "FrozenSet" -> [v |-> Obj_FrozenSet(f.items), heap |-> hp]
    [] f.type_ = "Code" ->
         [v |-> Obj_Code(
            [argcount |-> f.hdr[1], posonlyargcount |-> f.hdr[2],
             kwonlyargcount |-> f.hdr[3], nlocals |-> f.hdr[4],
             stacksize |-> f.hdr[5], flags |-> f.hdr[6],
             code |-> f.items[1], consts |-> f.items[2], names |-> f.items[3],
             varnames |-> f.items[4], freevars |-> f.items[5],
             cellvars |-> f.items[6], filename |-> f.items[7],
             name |-> f.items[8], firstlineno |-> f.hdr[7],
             lnotab |-> f.items[9]]),
          heap |-> hp]

\* A call failed: every open call returns the error, the depth handles are
\* dropped, and marshal_load_ex returns Err.
\* An error replaced on its way up by that of r_object_not_null.
Failed_masked(e, pos, table, hp) ==
  [pos |-> pos, depth |-> 1, refs |-> table, heap |-> hp, stack |-> <<>>,
   result |-> Done(Err(IF e.kind = "Panic" THEN e ELSE UnexpectedNull))]

Failed(e, pos, table, hp) ==
  [pos |-> pos, depth |-> 1, refs |-> table, heap |-> hp, stack |-> <<>>,
   result |-> Done(Err(e))]

\* An r_object call returning Ok(retval) with its depth handle kept alive.
Returned_holding(retval, rd, pos, table, hp, stk) ==
  LET to_read_object(x) ==
        IF x.ok
          THEN [pos |-> pos, depth |-> 1, refs |-> table, heap |-> hp,
                stack |-> <<>>, result |-> Done(Ok(x.v))]
          ELSE Failed(x.err, pos, table, hp)
      to_caller(c) ==
        IF c.ok
          THEN [pos |-> c.pos, depth |-> 2 + Len(stk), refs |-> table,
                heap |-> c.heap,
                stack |-> [stk EXCEPT ![Len(stk)] = c.frame],
                result |-> Pending]
          ELSE Failed(c.err, c.pos, table, hp)
  IN IF stk = <<>> THEN to_read_object(r_object_not_null(retval))
     ELSE to_caller(Continue(stk[Len(stk)], retval, rd, pos, hp))

\* An r_object call returned Ok(retval) to its caller: the innermost open call
\* of stk, or read_object when there is none.
Returned(retval, rd, pos, table, hp, stk) ==
  LET to_read_object(x) ==
        IF x.ok
          THEN [pos |-> pos, depth |-> 1, refs |-> table, heap |-> hp,
                stack |-> <<>>, result |-> Done(Ok(x.v))]
          ELSE Failed(x.err, pos, table, hp)
      to_caller(c) ==
        IF c.ok
          THEN [pos |-> c.pos, depth |-> 1 + Len(stk), refs |-> table,
                heap |-> c.heap,
                stack |-> [stk EXCEPT ![Len(stk)] = c.frame],
                result |-> Pending]
          ELSE Failed(c.err, c.pos, table, hp)
  IN IF stk = <<>> THEN to_read_object(r_object_not_null(retval))
     ELSE to_caller(Continue(stk[Len(stk)], retval, rd, pos, hp))

\* `count` consecutive r_long reads.
RECURSIVE r_longs(_, _, _, _)
r_longs(rd, pos, count, acc) ==
  LET push(r) ==
        IF r.ok THEN r_longs(rd, r.pos, count - 1, Append(acc, r.v)) ELSE r
  IN IF count = 0 THEN Read(acc, pos) ELSE push(r_long(rd, pos))

\* The Type::Unknown arm reporting the tag byte as it was read, flag and all.
Step_reject_flagged(rd, st) ==
  LET code(e) == Type.Unknown + (IF e.flag THEN FLAG_REF ELSE 0)
      reject(e) ==
        IF ~e.ok THEN Failed(e.err, e.pos, st.refs, st.heap)
        ELSE Failed(InvalidType(code(e)), e.pos, st.refs, st.heap)
  IN reject(r_object_tag(rd, st.pos, st.depth))

\* One step of the decoder from state st, by the kind of step that is next.
\* r_object fails before the type dispatch, or in the Type::Unknown arm.
Step_reject(rd, st) ==
  LET reject(e) ==
        IF ~e.ok THEN Failed(e.err, e.pos, st.refs, st.heap)
        ELSE Failed(InvalidType(Type.Unknown), e.pos, st.refs, st.heap)
  IN reject(r_object_tag(rd, st.pos, st.depth))

\* r_object on a record without nested records, from the tag to the return.
Step_leaf(rd, st) ==
  LET return(e, got) ==
        IF ~got.ok THEN Failed(got.err, got.pos, st.refs, st.heap)
        ELSE Returned(got.v, rd, got.pos,
                      r_ref_insert(got.v, None_, e.flag, st.refs), st.heap,
                      st.stack)
      arm(e) == return(e, r_object_leaf(e.type_, rd, e.pos))
  IN arm(r_object_tag(rd, st.pos, st.depth))

\* r_object on a Ref record whose flag is not looked at.
Step_ref_unflagged(rd, st) ==
  LET return(e, got) ==
        IF ~got.ok THEN Failed(got.err, got.pos, st.refs, st.heap)
        ELSE Returned(got.v, rd, got.pos, st.refs, st.heap, st.stack)
      arm(e) == return(e, r_object_ref(rd, e.pos, st.refs))
  IN arm(r_object_tag(rd, st.pos, st.depth))

\* r_object on a Ref record.
Step_ref(rd, st) ==
  LET return(e, got) ==
        IF ~got.ok THEN Failed(got.err, got.pos, st.refs, st.heap)
        ELSE Returned(got.v, rd, got.pos,
                      r_ref_insert(got.v, None_, e.flag, st.refs), st.heap,
                      st.stack)
      arm(e) == return(e, r_object_ref(rd, e.pos, st.refs))
  IN arm(r_object_tag(rd, st.pos, st.depth))

\* A composite record was entered: its call is now the innermost open one.
Opened(f, pos, table, hp, st) ==
  [pos |-> pos, depth |-> st.depth + 1, refs |-> table, heap |-> hp,
   stack |-> Append(st.stack, f), result |-> Pending]

\* r_object on SmallTuple, Tuple, List: the slot, then the count of r_vec.
Step_vec(rd, st) ==
  LET usize(l) == IF l.ok THEN Read(as_usize(l.v), l.pos) ELSE l
      open(e, slot, n) ==
        IF ~n.ok THEN Failed(n.err, n.pos, slot.refs, st.heap)
        ELSE Opened(Frame(e.type_, e.flag, slot.idx, st.pos, n.v),
                    n.pos, slot.refs, st.heap, st)
      arm(e) ==
        open(e, r_ref_reserve(e.type_, e.flag, st.refs),
             IF e.type_ = "SmallTuple" THEN r_byte(rd, e.pos)
             ELSE usize(r_long(rd, e.pos)))
  IN arm(r_object_tag(rd, st.pos, st.depth))

\* r_object on Set and FrozenSet.  The Set arm allocates the set and, when
\* the flag is set, pushes it and points idx at it before the count is read.
Step_hashset(rd, st) ==
  LET open(e, idx, table, hp, l) ==
        IF ~l.ok THEN Failed(l.err, l.pos, table, hp)
        ELSE Opened([Frame(e.type_, e.flag, idx, st.pos, as_usize(l.v))
                       EXCEPT !.set = IF e.type_ = "Set" THEN Len(hp) ELSE 0],
                    l.pos, table, hp, st)
      alloc(e, slot, hp) ==
        IF e.type_ = "Set" /\ e.flag
          THEN open(e, Some(Len(slot.refs)),
                    Append(slot.refs, Obj_Set(Len(hp))), hp, r_long(rd, e.pos))
          ELSE open(e, slot.idx, slot.refs, hp, r_long(rd, e.pos))
      arm(e) ==
        alloc(e, r_ref_reserve(e.type_, e.flag, st.refs),
              IF e.type_ = "Set" THEN Append(st.heap, [t |-> "Set", v |-> <<>>])
              ELSE st.heap)
  IN arm(r_object_tag(rd, st.pos, st.depth))

\* r_object on Dict: r_hashmap starts with an empty map.
Step_hashmap(rd, st) ==
  LET open(e, slot) ==
        Opened(Frame(e.type_, e.flag, slot.idx, st.pos, 0),
               e.pos, slot.refs, st.heap, st)
      arm(e) == open(e, r_ref_reserve(e.type_, e.flag, st.refs))
  IN arm(r_object_tag(rd, st.pos, st.depth))

\* The Code arm reading posonlyargcount whatever the option says.
Step_code_posonly(rd, opt, st) ==
  LET hdr(h) ==
        << h.v[1], h.v[2], h.v[3], h.v[4], h.v[5], from_bits_truncate(h.v[6]) >>
      open(e, slot, h) ==
        IF ~h.ok THEN Failed(h.err, h.pos, slot.refs, st.heap)
        ELSE Opened([Frame(e.type_, e.flag, slot.idx, st.pos, 9)
                       EXCEPT !.hdr = hdr(h)],
                    h.pos, slot.refs, st.heap, st)
      arm(e) ==
        open(e, r_ref_reserve(e.type_, e.flag, st.refs),
             r_longs(rd, e.pos, 6, <<>>))
  IN arm(r_object_tag(rd, st.pos, st.depth))

\* r_object on Code: the scalar fields up to flags.
Step_code(rd, opt, st) ==
  LET hdr(h) ==
        IF opt
          THEN << h.v[1], h.v[2], h.v[3], h.v[4], h.v[5],
                  from_bits_truncate(h.v[6]) >>
          ELSE << h.v[1], <<0, 0, 0, 0>>, h.v[2], h.v[3], h.v[4],
                  from_bits_truncate(h.v[5]) >>
      open(e, slot, h) ==
        IF ~h.ok THEN Failed(h.err, h.pos, slot.refs, st.heap)
        ELSE Opened([Frame(e.type_, e.flag, slot.idx, st.pos, 9)
                       EXCEPT !.hdr = hdr(h)],
                    h.pos, slot.refs, st.heap, st)
      arm(e) ==
        open(e, r_ref_reserve(e.type_, e.flag, st.refs),
             r_longs(rd, e.pos, IF opt THEN 6 ELSE 5, <<>>))
  IN arm(r_object_tag(rd, st.pos, st.depth))

\* The innermost open call has read its children: it builds its value,
\* publishes it and returns it to its caller, dropping its depth handle.
Step_return(rd, st) ==
  LET return(f, b) ==
        Returned(Some(b.v), rd, st.pos,
                 r_ref_insert(Some(b.v), f.idx, f.flag, st.refs), b.heap,
                 SubSeq(st.stack, 1, Len(st.stack) - 1))
      build(f) == return(f, Build(f, st.heap))
  IN build(st.stack[Len(st.stack)])

\* Which step is next in state st.
Kind(rd, st) ==
  LET arm(e) ==
        IF ~e.ok \/ e.type_ = "Unknown" THEN "reject"
        ELSE IF e.type_ = "Ref" THEN "ref"
        ELSE IF e.type_ \in VecType THEN "vec"
        ELSE IF e.type_ \in {"Set", "FrozenSet"} THEN "hashset"
        ELSE IF e.type_ = "Dict" THEN "hashmap"
        ELSE IF e.type_ = "Code" THEN "code"
        ELSE "leaf"
  IN IF st.result.set THEN "done"
     ELSE IF st.stack /= <<>> /\ st.stack[Len(st.stack)].done THEN "return"
     ELSE arm(r_object_tag(rd, st.pos, st.depth))

\* One step, whatever its kind.
Step(rd, opt, st) ==
  LET step(k) ==
        CASE k = "reject" -> Step_reject(rd, st)
          [] k = "leaf" -> Step_leaf(rd, st)
          [] k = "ref" -> Step_ref(rd, st)
          [] k = "vec" -> Step_vec(rd, st)
          [] k = "hashset" -> Step_hashset(rd, st)
          [] k = "hashmap" -> Step_hashmap(rd, st)
          [] k = "code" -> Step_code(rd, opt, st)
          [] k = "return" -> Step_return(rd, st)
          [] OTHER -> st
  IN step(Kind(rd, st))

\* The RFile that marshal_load_ex builds.
RFile_new ==
  [pos |-> 0, depth |-> 1, refs |-> <<>>, heap |-> <<>>, stack |-> <<>>,
   result |-> Pending]

\* marshal_load_ex(readable, opts) run to its return: the final state.
RECURSIVE Run(_, _, _)
Run(rd, opt, st) == IF st.result.set THEN st ELSE Run(rd, opt, Step(rd, opt, st))
marshal_load_ex(rd, opt) == Run(rd, opt, RFile_new)

\* --------------------------------------------------------------- the state
VARIABLES
  readable,             \* RFile.readable: the bytes of the source
  has_posonlyargcount,  \* RFile.has_posonlyargcount
  pos,                  \* the cursor of readable: bytes consumed
  depth,                \* RFile.depth: strong count of the Depth handle
  refs,                 \* RFile.refs
  heap,                 \* the contents behind the ArcRwLock handles
  stack,                \* the open r_object calls, outermost first
  result,               \* what marshal_load_ex returned, once it has
  last,                 \* history: the step taken last
  bearing,              \* history: tag offsets of the flagged value records
  owner,                \* history: per slot of refs, tag offset of its record
  family,               \* the source: which alphabet its chunks come from
  budget                \* the source: chunks it may still deliver

vars == << readable, has_posonlyargcount, pos, depth, refs, heap, stack,
           result, last, bearing, owner, family, budget >>

St == [pos |-> pos, depth |-> depth, refs |-> refs, heap |-> heap,
       stack |-> stack, result |-> result]

\* --------------------------------------------------------------- the source
\* The byte source delivers its bytes in chunks, each a record, a record
\* header or a truncated one, taken from one alphabet; it ends when a read
\* finds nothing buffered and nothing is delivered.
Repeat(bs, k) == [i \in 1..(k * Len(bs)) |-> bs[((i - 1) % Len(bs)) + 1]]
U32(n) == <<n, 0, 0, 0>>
Tag(name, flag) == Type[name] + (IF flag THEN FLAG_REF ELSE 0)
Counted(name, flag, n) ==
  <<Tag(name, flag)>> \o (IF name = "SmallTuple" THEN <<n>> ELSE U32(n))
RefRec(flag, n) == <<Tag("Ref", flag)>> \o U32(n)
ShortStr(flag, txt) == <<Tag("ShortAscii", flag), Len(txt)>> \o txt
BytesRec(flag, bs) == <<Tag("String", flag)>> \o U32(Len(bs)) \o bs

\* A Code record in two chunks: the tag with the scalar fields up to flags
\* (`longs` of them), and the remaining fields from `code` to `lnotab`.
CodeHead(flag, longs) == <<Tag("Code", flag)>> \o Repeat(U32(1), longs)
CodeBody(name) ==
  BytesRec(FALSE, <<100, 0>>) \o Counted("SmallTuple", FALSE, 0)
    \o Repeat(Counted("SmallTuple", FALSE, 0), 4)
    \o ShortStr(FALSE, <<102>>) \o name \o U32(3) \o BytesRec(FALSE, <<>>)

Alphabet ==
  [ refs |->
      { Counted("List", TRUE, 2), Counted("Set", TRUE, 1),
        Counted("Set", TRUE, 0), Counted("SmallTuple", TRUE, 1),
        Counted("FrozenSet", TRUE, 0), <<Tag("Dict", TRUE)>>,
        ShortStr(TRUE, <<97>>), <<Tag("None", TRUE)>>, <<Tag("Null", FALSE)>>,
        <<Tag("Ellipsis", FALSE)>>,
        RefRec(FALSE, 0), RefRec(FALSE, 1), RefRec(FALSE, 2), RefRec(TRUE, 1) },
    keys |->
      { <<Tag("Dict", FALSE)>>, Counted("Set", FALSE, 1),
        Counted("FrozenSet", FALSE, 1), Counted("SmallTuple", FALSE, 2),
        Counted("SmallTuple", FALSE, 1), Counted("List", FALSE, 0),
        Counted("FrozenSet", FALSE, 0), BytesRec(FALSE, <<>>),
        <<Tag("None", FALSE)>>, <<Tag("True", FALSE)>>,
        <<Tag("None", FALSE), Tag("True", FALSE)>>,
        <<Tag("Null", FALSE)>>, <<Tag("Null", TRUE)>> },
    code |->
      { CodeHead(TRUE, 6), CodeHead(FALSE, 5),
        CodeBody(ShortStr(FALSE, <<103>>)), CodeBody(<<Tag("None", FALSE)>>),
        Counted("List", TRUE, 2), RefRec(FALSE, 1), <<Tag("Unknown", FALSE)>>,
        <<Tag("Int", FALSE)>> \o U32(7) } ]

\* Nested records down to the recursion limit: `levels` headers of one
\* container type, each with a single child, then the innermost record and,
\* for Dict, the terminators.

DeepHeader ==
  [ SmallTuple |-> Counted("SmallTuple", FALSE, 1),
    Tuple |-> Counted("Tuple", FALSE, 1),
    List |-> Counted("List", FALSE, 1),
    Dict |-> <<Tag("Dict", FALSE), Tag("None", FALSE)>>,
    FrozenSet |-> Counted("FrozenSet", FALSE, 1) ]

Deep(name, levels, inner) ==
  Repeat(DeepHeader[name], levels) \o inner
    \o (IF name = "Dict" THEN Repeat(<<Tag("Null", FALSE)>>, levels) ELSE <<>>)

DeepInputs ==
  { Deep(name, levels, inner) :
      name \in DOMAIN DeepHeader,
      levels \in {Depth_MAX - 1, Depth_MAX},
      inner \in {<<Tag("None", FALSE)>>, Counted("SmallTuple", FALSE, 0)} }
    \cup { Deep(name, levels, inner) :
             name \in {"SmallTuple", "List"},
             levels \in {Depth_MAX - 1, Depth_MAX},
             inner \in {<<>>, <<1>>, <<Tag("Unknown", TRUE)>>,
                        Counted("List", TRUE, 0)} }

\* Whole records held in the source from the start.
\* Every tag byte on its own, the reference flag included.
TagInputs == { <<b>> : b \in 0..255 }

\* Int and Int64 records over bytes at the edges of the signed range.
EdgeWords ==
  { <<b1, b2, b2, b4>> : b1 \in {0, 1, 255}, b2 \in {0, 255},
                         b4 \in {0, 127, 128, 255} }
IntInputs ==
  { <<Tag("Int", FALSE)>> \o w : w \in EdgeWords }
    \cup { <<Tag("Int64", flag)>> \o lo \o hi :
             flag \in BOOLEAN, lo \in EdgeWords,
             hi \in {<<0, 0, 0, 0>>, <<255, 255, 255, 127>>, <<0, 0, 0, 128>>,
                     <<255, 255, 255, 255>>, <<1, 0, 0, 0>>} }

\* Long records: a signed count and up to MaxDigits digits.
MaxDigits == 5
U16(d) == <<d % 256, d \div 256>>
I32(n) == IF n >= 0 THEN U32(n) ELSE <<256 + n, 255, 255, 255>>
LongDigits == {0, 1, 21845, 32767, 32768, 32769}
LongRec(count, digits) == <<Tag("Long", FALSE)>> \o I32(count) \o Flatten(digits)
LongInputs ==
  { LongRec(0, <<>>), LongRec(0, <<U16(1)>>), LongRec(2, <<U16(1)>>),
    LongRec(3, <<U16(0), U16(0)>>), LongRec(2, <<U16(0), <<0>>>>),
    LongRec(-2, <<U16(32769), <<0>>>>) }
    \cup { LongRec(sign * 2, <<U16(d)>>) : sign \in {-1, 1}, d \in LongDigits }
    \cup { LongRec(sign * Len(ds), [i \in 1..Len(ds) |-> U16(ds[i])]) :
             sign \in {-1, 1},
             ds \in UNION { [1..n -> LongDigits] : n \in 1..2 } }
    \cup { LongRec(sign * Len(ds), [i \in 1..Len(ds) |-> U16(ds[i])]) :
             sign \in {-1, 1},
             ds \in UNION { [1..n -> {1, 21845, 32767}] : n \in 3..MaxDigits } }

\* Code records: the scalar fields, the nine object fields with firstlineno
\* after the eighth.
CodeRec(flag, words, fields) ==
  <<Tag("Code", flag)>> \o Flatten(words) \o Flatten(SubSeq(fields, 1, 8))
    \o U32(3) \o fields[9]
CodeWords(longs, flags) ==
  IF longs = 6 THEN <<U32(1), U32(2), U32(3), U32(4), U32(5), flags>>
  ELSE <<U32(1), U32(3), U32(4), U32(5), flags>>
Names == Counted("SmallTuple", FALSE, 1) \o ShortStr(FALSE, <<120>>)
GoodFields ==
  << BytesRec(FALSE, <<100, 0>>),
     Counted("SmallTuple", FALSE, 1) \o <<Tag("None", FALSE)>>,
     Names, Names, Counted("SmallTuple", FALSE, 0), Names,
     ShortStr(FALSE, <<102>>), ShortStr(FALSE, <<103>>), BytesRec(FALSE, <<>>) >>
WrongFields ==
  { <<Tag("None", FALSE)>>, <<Tag("Null", FALSE)>>, <<Tag("Null", TRUE)>>,
    ShortStr(FALSE, <<121>>), BytesRec(FALSE, <<122>>),
    Counted("SmallTuple", FALSE, 1) \o <<Tag("True", FALSE)>>,
    Counted("SmallTuple", FALSE, 3) \o ShortStr(FALSE, <<120>>)
      \o BytesRec(FALSE, <<>>) \o <<Tag("None", FALSE)>> }
FlagWords ==
  { <<1, 0, 0, 0>>, <<67, 0, 0, 0>>, <<255, 255, 255, 255>>, <<0, 12, 0, 0>>,
    <<255, 243, 31, 0>>, <<0, 0, 224, 255>>, <<0, 16, 16, 128>> }
\* A Null, flagged or not, as the first child of each kind of container.
NullInputs ==
  { head \o <<Tag("Null", flag)>> :
      flag \in BOOLEAN,
      head \in { <<>>, Counted("SmallTuple", FALSE, 1), Counted("Tuple", FALSE, 1),
                 Counted("List", TRUE, 1), Counted("Set", FALSE, 1),
                 Counted("FrozenSet", FALSE, 1), <<Tag("Dict", FALSE)>>,
                 <<Tag("Dict", FALSE), Tag("True", FALSE)>> } }

CodeInputs ==
  { CodeRec(FALSE, CodeWords(6, <<67, 0, 0, 0>>), [GoodFields EXCEPT ![k] = w]) :
      k \in 1..9, w \in WrongFields }
    \cup { CodeRec(flag, CodeWords(longs, flags), GoodFields) :
             flag \in BOOLEAN, longs \in {5, 6}, flags \in FlagWords }

\* ----------------------------------------------------------------- actions
\* marshal_load_ex has built the RFile and is about to call read_object.
\* Tuple, List and Long records whose count is at or next to the largest
\* request with_capacity can take, alone, with a first child or digit, and
\* inside a tuple.
LargeInputs ==
  LET LargeCounts ==
        { <<255, 255, 255, 255>>, <<0, 0, 0, 128>>, <<0, 0, 0, 64>>,
          <<255, 255, 255, 63>>, <<0, 0, 0, 16>>, <<255, 255, 255, 15>> }
  IN
  { head \o <<Tag(t, flag)>> \o w \o rest :
      head \in {<<>>, Counted("SmallTuple", TRUE, 2) \o <<Tag("None", FALSE)>>},
      t \in {"Tuple", "List", "Long", "String", "Unicode", "Set"},
      flag \in BOOLEAN, w \in LargeCounts,
      rest \in {<<>>, <<0, 0>>, <<1, 128>>, <<Tag("None", FALSE)>>} }

\* Text and bytes records over payloads that are UTF-8 (ASCII, two, three and
\* four bytes to a character, the last code point) and payloads that are not
\* (a lone continuation or lead byte, overlong forms, a surrogate, a code
\* point past U+10FFFF, bytes that are never UTF-8).
Utf8Payloads ==
  { <<>>, <<97>>, <<97, 0, 127>>, <<195, 169>>, <<97, 226, 130, 172>>,
    <<237, 159, 191>>, <<240, 159, 152, 128>>, <<244, 143, 191, 191>>,
    <<194, 128, 223, 191>>, <<224, 160, 128>> }
NotUtf8Payloads ==
  { <<128>>, <<195>>, <<97, 195>>, <<192, 128>>, <<193, 191>>, <<224, 159, 191>>,
    <<237, 160, 128>>, <<240, 143, 191, 191>>, <<244, 144, 128, 128>>,
    <<245, 128, 128, 128>>, <<255>>, <<226, 130>>, <<97, 254, 97>>,
    <<195, 40>> }
TextInputs ==
  LET TextRec(t, flag, bs) ==
        <<Tag(t, flag)>>
          \o (IF t \in Text1 THEN <<Len(bs)>> ELSE U32(Len(bs))) \o bs
  IN
  { head \o TextRec(t, flag, bs) \o rest :
      head \in {<<>>, Counted("Tuple", FALSE, 1)},
      t \in Text4 \cup Text1 \cup {"String"}, flag \in BOOLEAN,
      bs \in Utf8Payloads \cup NotUtf8Payloads, rest \in {<<>>, <<128>>} }

\* Sets and frozensets of two elements, drawn from records of hashable
\* values among which some are equal without being written alike: zeros of
\* both signs, NaNs of several bit patterns, text and binary floats, and
\* tuples, complex numbers and frozensets of these.
HashElems ==
  LET F64Words ==
        [ zero |-> <<0, 0, 0, 0, 0, 0, 0, 0>>, negzero |-> <<0, 0, 0, 0, 0, 0, 0, 128>>,
          nan |-> <<0, 0, 0, 0, 0, 0, 248, 127>>, nan1 |-> <<1, 0, 0, 0, 0, 0, 240, 127>>,
          negnan |-> <<0, 0, 0, 0, 0, 0, 248, 255>>, one |-> <<0, 0, 0, 0, 0, 0, 240, 63>>,
          inf |-> <<0, 0, 0, 0, 0, 0, 240, 127>> ]
      BinFloat(n) == <<Tag("BinaryFloat", FALSE)>> \o F64Words[n]
      TextFloat(txt) == <<Tag("Float", FALSE), Len(txt)>> \o txt
  IN
  { BinFloat(n) : n \in DOMAIN F64Words }
    \cup { TextFloat(<<48>>), TextFloat(<<45, 48>>), TextFloat(<<110, 97, 110>>),
           TextFloat(<<49>>), TextFloat(<<49, 46, 53>>) }
    \cup { <<Tag("BinaryComplex", FALSE)>> \o F64Words[a] \o F64Words[b] :
             a \in {"zero", "negzero"}, b \in {"nan", "nan1"} }
    \cup { Counted("SmallTuple", FALSE, 1) \o BinFloat(n) :
             n \in {"zero", "negzero", "nan", "negnan"} }
    \cup { Counted("FrozenSet", FALSE, 2) \o BinFloat(a) \o BinFloat(b) :
             a \in {"one", "zero", "negzero"}, b \in {"one", "zero", "nan"} }
    \cup { Counted("FrozenSet", FALSE, 2) \o BinFloat(a) \o <<Tag("None", FALSE)>> :
             a \in {"nan", "nan1"} }
    \cup { <<Tag("None", FALSE)>> \o <<>>, <<Tag("Int", FALSE)>> \o U32(1),
           <<Tag("Int", FALSE)>> \o U32(0), <<Tag("True", FALSE)>> }
HashInputs ==
  { Counted(t, FALSE, 2) \o a \o b :
      t \in {"Set", "FrozenSet"}, a \in HashElems, b \in HashElems }

\* Sources that hold more than one top-level record.
AgainInputs ==
  { first \o second :
      first \in { ShortStr(TRUE, <<97>>), Counted("List", TRUE, 0),
                  Counted("SmallTuple", TRUE, 1) \o <<Tag("None", FALSE)>> },
      second \in { RefRec(FALSE, 0), <<Tag("None", FALSE)>>,
                   <<Tag("Null", FALSE)>>,
                   Counted("SmallTuple", FALSE, 1) \o RefRec(FALSE, 0),
                   ShortStr(TRUE, <<98>>) \o RefRec(FALSE, 0) } }

Init ==
  /\ \/ readable = <<>> /\ family \in DOMAIN Alphabet /\ budget = MaxTokens
        /\ has_posonlyargcount \in (IF family = "code" THEN BOOLEAN ELSE {TRUE})
     \/ readable \in DeepInputs /\ family = "deep" /\ budget = 0
        /\ has_posonlyargcount = TRUE
     \/ readable \in TagInputs \cup IntInputs \cup LongInputs \cup NullInputs
                        \cup LargeInputs \cup TextInputs \cup HashInputs
                        \cup AgainInputs
        /\ family = "scalar" /\ budget = 0 /\ has_posonlyargcount = TRUE
     \/ readable \in CodeInputs /\ family = "record" /\ budget = 0
        /\ has_posonlyargcount \in BOOLEAN
  /\ pos = 0
  /\ depth = 1
  /\ refs = <<>>
  /\ heap = <<>>
  /\ stack = <<>>
  /\ result = Pending
  /\ last = [op |-> "new", tagged |-> FALSE, type_ |-> "", flag |-> FALSE,
             at |-> 0, level |-> 0, into |-> "", val |-> None_, ok |-> TRUE]
  /\ bearing = <<>>
  /\ owner = <<>>

\* What the source may deliver when the decoder reads next.
Supply ==
  IF pos = Len(readable) /\ budget > 0 THEN Alphabet[family] \cup {<<>>}
  ELSE {<<>>}

\* The types whose flagged records are published in refs.
ValueType == DOMAIN Type \ (Singleton \cup {"Null", "Ref", "Unknown"})

\* The decoder moves to state s.  A failed read_exact leaves it unspecified
\* how much of the source it consumed.
Becomes(s) ==
  /\ depth' = s.depth
  /\ refs' = s.refs
  /\ heap' = s.heap
  /\ stack' = s.stack
  /\ result' = s.result
  /\ IF s.result.set /\ ~s.result.ok /\ s.result.err.kind = "Io"
       THEN pos' \in {s.pos, Len(readable')}
       ELSE pos' = s.pos
  /\ UNCHANGED <<has_posonlyargcount, family>>

\* Where the record read next is going: the loop of the innermost open call
\* that asked for it, or read_object.
Context(stk) ==
  IF stk = <<>> THEN "read_object"
  ELSE LET f == stk[Len(stk)]
       IN IF f.type_ = "Dict"
            THEN (IF f.key.some THEN "Dict.value" ELSE "Dict.key")
            ELSE f.type_

\* A step that enters a record: the source delivers, r_object runs and comes
\* to state s, having returned val (None_ when it returned Null or an error,
\* or has not returned yet).
Enters(kind, chunk, s, val) ==
  LET record(rd, e) ==
        /\ last' = [op |-> kind, tagged |-> r_byte(rd, pos).ok,
                    type_ |-> IF e.ok THEN e.type_ ELSE "",
                    flag |-> e.ok /\ e.flag, at |-> pos,
                    level |-> Len(stack) + 1, into |-> Context(stack),
                    val |-> val, ok |-> ~s.result.set \/ s.result.ok]
        /\ bearing' = IF e.ok /\ e.flag /\ e.type_ \in ValueType
                        THEN Append(bearing, pos) ELSE bearing
        /\ owner' = owner \o [i \in 1..(Len(s.refs) - Len(refs)) |->
                                [at |-> pos, type_ |-> e.type_]]
      deliver(rd) ==
        /\ Kind(rd, St) = kind
        /\ readable' = rd
        /\ budget' = IF chunk = <<>> THEN budget ELSE budget - 1
        /\ Becomes(s)
        /\ record(rd, r_object_tag(rd, pos, depth))
  IN deliver(readable \o chunk)

RObjectReject ==
  \E chunk \in Supply :
    Enters("reject", chunk, Step_reject(readable \o chunk, St), None_)

RObjectLeaf ==
  \E chunk \in Supply :
    LET retval(got) == IF got.ok THEN got.v ELSE None_
        arm(rd, e) == retval(r_object_leaf(e.type_, rd, e.pos))
        tag(rd) == arm(rd, r_object_tag(rd, pos, depth))
    IN Enters("leaf", chunk, Step_leaf(readable \o chunk, St),
              tag(readable \o chunk))

RObjectRef ==
  \E chunk \in Supply :
    LET retval(got) == IF got.ok THEN got.v ELSE None_
        arm(rd, e) == retval(r_object_ref(rd, e.pos, refs))
        tag(rd) == arm(rd, r_object_tag(rd, pos, depth))
    IN Enters("ref", chunk, Step_ref(readable \o chunk, St),
              tag(readable \o chunk))

RObjectVec ==
  \E chunk \in Supply :
    Enters("vec", chunk, Step_vec(readable \o chunk, St), None_)

RObjectHashSet ==
  \E chunk \in Supply :
    Enters("hashset", chunk, Step_hashset(readable \o chunk, St), None_)

RObjectHashMap ==
  \E chunk \in Supply :
    Enters("hashmap", chunk, Step_hashmap(readable \o chunk, St), None_)

RObjectCode ==
  \E chunk \in Supply :
    Enters("code", chunk,
           Step_code(readable \o chunk, has_posonlyargcount, St), None_)

\* The Vec::with_capacity of r_vec or r_pylong fails: no Result is returned.
RObjectAlloc ==
  LET fail(e, req) ==
        /\ req.some /\ with_capacity_may_fail(req.v.n, req.v.size)
        /\ Becomes(Failed(Panic("capacity overflow"), e.pos + 4, refs, heap))
        /\ last' = [op |-> "alloc", tagged |-> TRUE, type_ |-> e.type_,
                    flag |-> e.flag, at |-> pos, level |-> Len(stack) + 1,
                    into |-> Context(stack), val |-> None_, ok |-> FALSE]
  IN /\ Kind(readable, St) \in {"vec", "leaf"}
     /\ fail(r_object_tag(readable, pos, depth),
             r_object_with_capacity(readable, pos, depth))
     /\ UNCHANGED <<readable, budget, bearing, owner>>

\* The innermost open call returns.
RObjectReturn ==
  /\ Kind(readable, St) = "return"
  /\ Becomes(Step_return(readable, St))
  /\ last' = LET f == stack[Len(stack)]
             IN [op |-> "return", tagged |-> TRUE, type_ |-> f.type_,
                 flag |-> f.flag, at |-> f.at, level |-> Len(stack),
                 into |-> Context(SubSeq(stack, 1, Len(stack) - 1)),
                 val |-> Some(Build(f, heap).v),
                 ok |-> ~result'.set \/ result'.ok]
  /\ UNCHANGED <<readable, budget, bearing, owner>>

\* marshal_load_ex called on the source of a decode that left the cursor where
\* it was and kept the reference table of that decode.
MarshalLoadEx_reusing ==
  /\ result.set
  /\ IF result.ok THEN TRUE ELSE result.err.kind /= "Panic"
  /\ pos < Len(readable)
  /\ readable' = readable
  /\ pos' = pos /\ depth' = 1 /\ refs' = refs /\ heap' = heap
  /\ stack' = <<>> /\ result' = [set |-> FALSE]
  /\ last' = [op |-> "new", tagged |-> FALSE, type_ |-> "", flag |-> FALSE,
              at |-> 0, level |-> 0, into |-> "", val |-> None_, ok |-> TRUE]
  /\ bearing' = <<>>
  /\ owner' = <<>>
  /\ UNCHANGED <<has_posonlyargcount, family, budget>>

\* marshal_load_ex called again on a source whose decode has returned with
\* bytes left: a new RFile over the same reader, which delivers the bytes
\* that the decode before did not consume.
MarshalLoadEx ==
  /\ result.set
  /\ IF result.ok THEN TRUE ELSE result.err.kind /= "Panic"
  /\ pos < Len(readable)
  /\ readable' = SubSeq(readable, pos + 1, Len(readable))
  /\ Becomes(RFile_new)
  /\ last' = [op |-> "new", tagged |-> FALSE, type_ |-> "", flag |-> FALSE,
              at |-> 0, level |-> 0, into |-> "", val |-> None_, ok |-> TRUE]
  /\ bearing' = <<>>
  /\ owner' = <<>>
  /\ UNCHANGED budget

Next ==
  \/ MarshalLoadEx
  \/ RObjectReject
  \/ RObjectLeaf
  \/ RObjectRef
  \/ RObjectVec
  \/ RObjectHashSet
  \/ RObjectHashMap
  \/ RObjectCode
  \/ RObjectAlloc
  \/ RObjectReturn

Spec == Init /\ [][Next]_vars

----------------------------------------------------------------------------
\* Vocabulary of the properties.

Top == stack[Len(stack)]
Failing == result.set /\ ~result.ok
FailsWith(kind) == Failing /\ result.err.kind = kind

\* The first slot of the reference table that the record whose tag is at
\* offset `at` added.
Reserved(at) ==
  CHOOSE j \in 1..Len(owner) :
    owner[j].at = at /\ \A i \in 1..(j - 1) : owner[i].at /= at

\* What a Ref record naming index n gets from the table as it stands.
Resolve(n) == r_object_ref(U32(n), 0, refs)

\* The values a set or a dict key may not hold or contain, first to last in
\* element order, tuples searched depth first.
RECURSIVE Offending(_)
FlattenOffending(xs) ==
  LET F[i \in 0..Len(xs)] == IF i = 0 THEN <<>> ELSE F[i - 1] \o Offending(xs[i])
  IN F[Len(xs)]
Offending(x) ==
  IF x.t \in {"Bytes", "List", "Dict", "Set", "Code"} THEN <<x>>
  ELSE IF x.t = "Tuple" THEN FlattenOffending(x.v)
  ELSE <<>>

----------------------------------------------------------------------------
\* C1: reference indices are handed out in the order in which the
\* reference-bearing records start in the stream: slot i of the table belongs
\* to the i-th flagged record of a value type.
C1_IndexFollowsStreamOrder ==
  \A i \in 1..Len(owner) : i <= Len(bearing) /\ owner[i].at = bearing[i]

\* C2: every reference-bearing record accounts for exactly one entry of the
\* reference table, so unless the decode has failed the table is as long as
\* the number of such records begun.
C2_OneEntryPerRecord ==
  ~Failing => Len(refs) = Len(bearing)

\* C3: while a flagged Set reads its children, the slot reserved for it
\* already holds the set, and a Ref to that index yields the set and not
\* InvalidRef.
C3_SetStoredBeforeChildren ==
  \A k \in 1..Len(stack) :
    (stack[k].type_ = "Set" /\ stack[k].flag /\ ~stack[k].done) =>
      LET j == Reserved(stack[k].at)
      IN /\ refs[j] = Obj_Set(stack[k].set)
         /\ Resolve(j - 1) = Read(Some(Obj_Set(stack[k].set)), 4)

\* C4: while decoding, a Ref fails with InvalidRef in exactly two cases: its
\* index is not below the count of entries, or it names the slot reserved by
\* a flagged SmallTuple, Tuple, List, Dict, FrozenSet or Code that is still
\* open.  In the second case it never yields a value.
C4_InvalidRefExactlyTwoCases ==
  ~result.set =>
    \A n \in 0..Len(refs) :
      (~Resolve(n).ok /\ Resolve(n).err = InvalidRef)
        <=> \/ n >= Len(refs)
            \/ \E k \in 1..Len(stack) :
                 /\ stack[k].flag
                 /\ stack[k].type_ \in Composite \ {"Set"}
                 /\ stack[k].idx = Some(n)

\* C5: a flagged SmallTuple, Tuple, List, Dict, FrozenSet or Code is put into
\* its reserved slot when it returns, and a decode that succeeds leaves no
\* placeholder in the table.
C5_ReservedSlotFilled ==
  /\ (last.op = "return" /\ last.flag /\ last.type_ /= "Set")
       => refs[Reserved(last.at)] = last.val.v
  /\ (result.set /\ result.ok) => \A i \in 1..Len(refs) : ~is_none(refs[i])

\* C6: reading None, StopIteration, Ellipsis, True, False or Null leaves the
\* reference table as it was, flagged or not.
C6_SingletonsLeaveTable ==
  [][(last' /= last /\ last'.op = "leaf"
        /\ last'.type_ \in Singleton \cup {"Null"}) => refs' = refs]_vars

C6_Witness ==
  /\ last.op = "leaf" /\ last.type_ \in Singleton /\ last.flag
  /\ last.val.some /\ refs /= <<>>

\* C7: never more than 900 records are open at once; a record at level 900
\* is accepted and one at level 901 fails with RecursionLimitExceeded, and
\* nothing else does.
C7_DepthCeiling ==
  /\ Len(stack) <= Depth_MAX
  /\ (last.op \notin {"new", "return"} /\ last.tagged) =>
       ((Failing /\ result.err = RecursionLimitExceeded)
          <=> last.level > Depth_MAX)

C7_Witness ==
  /\ Len(stack) = Depth_MAX
  /\ \E name \in {"SmallTuple", "Tuple", "List", "Dict", "FrozenSet"} :
       \A k \in 1..Len(stack) : stack[k].type_ = name

\* C8: every key stored in a Dict is a value that converts to HashableValue;
\* a key that does not convert fails the decode with Unhashable instead.
C8_DictKeysHashable ==
  \A i \in 1..Len(heap) :
    heap[i].t = "Dict" =>
      \A j \in 1..Len(heap[i].v) : Offending(heap[i].v[j][1]) = <<>>

\* C9: an element delivered to a Set or FrozenSet is converted: if it is or
\* contains a value that cannot be converted the decode fails with
\* Unhashable carrying the first such value, innermost; otherwise (a
\* FrozenSet element included) it does not fail, and what sets hold are
\* converted values.
C9_SetElementsConverted ==
  /\ (last.val.some /\ last.into \in {"Set", "FrozenSet"}) =>
       IF Offending(last.val.v) /= <<>>
         THEN Failing /\ result.err = Unhashable(Offending(last.val.v)[1])
         ELSE ~Failing
  /\ \A i \in 1..Len(heap) :
       heap[i].t = "Set" =>
         \A j \in 1..Len(heap[i].v) : "h" \in DOMAIN heap[i].v[j]

C9_Witness ==
  /\ last.into \in {"Set", "FrozenSet"} /\ last.val.some
  /\ last.val.v.t = "Tuple" /\ Len(last.val.v.v) = 2
  /\ last.val.v.v[1].t = "Bytes" /\ last.val.v.v[2].t = "List"
  /\ FailsWith("Unhashable") /\ result.err.obj.t = "Bytes"

\* C10: a Null read where a Dict expects a key or a value ends the Dict
\* without failing; the pairs completed before it are kept and a key that
\* was waiting for its value is dropped.
C10_NullEndsDict ==
  [][/\ (last' /= last /\ last'.tagged /\ last'.type_ = "Null"
           /\ last'.into \in {"Dict.key", "Dict.value"}) =>
          /\ ~result'.set
          /\ Len(stack') = Len(stack)
          /\ stack'[Len(stack')].done
          /\ stack'[Len(stack')].items = Top.items
     /\ (last' /= last /\ last'.op = "return" /\ last'.type_ = "Dict") =>
          heap'[last'.val.v.id] = [t |-> "Dict", v |-> Top.items]]_vars

C10_Witness ==
  /\ last.type_ = "Null" /\ last.into = "Dict.value"
  /\ stack /= <<>> /\ Top.type_ = "Dict" /\ Top.done /\ Top.items /= <<>>

\* C11: a Null, flagged or not, read where a value is required (by
\* read_object, in a SmallTuple, Tuple or List, in a Set or FrozenSet, as an
\* object field of Code) fails the decode with UnexpectedNull; in the key and
\* value positions of a Dict it does not fail.
C11_NullWhereValueRequired ==
  (last.tagged /\ last.type_ = "Null") =>
    IF last.into \in {"Dict.key", "Dict.value"} THEN ~Failing
    ELSE result = Done(Err(UnexpectedNull))

C11_Witness ==
  /\ last.type_ = "Null" /\ last.flag /\ last.into = "Code"
  /\ result = Done(Err(UnexpectedNull))

----------------------------------------------------------------------------
\* The Long record whose tag is at offset `at` of the source, as written:
\* its signed count, and its digits as far as the source holds them.
LongHasCount(at) ==
  /\ at + 5 <= Len(readable)
  /\ \E n \in 0..(MaxDigits + 1) :
       SubSeq(readable, at + 2, at + 5) \in {I32(n), I32(-n)}
LongSize(at) ==
  CHOOSE n \in 0..(MaxDigits + 1) :
    SubSeq(readable, at + 2, at + 5) \in {I32(n), I32(-n)}
LongNegative(at) == readable[at + 5] >= 128
LongComplete(at) ==
  LongHasCount(at) /\ at + 5 + 2 * LongSize(at) <= Len(readable)
LongDigit(at, i) == readable[at + 4 + 2 * i] + 256 * readable[at + 5 + 2 * i]
LongRead == last.op = "leaf" /\ last.type_ = "Long"

\* C12: a Long record with a digit of 2^15 or more, 2^15 itself included,
\* fails with DigitOutOfRange and yields no value.
C12_DigitBelow2Pow15 ==
  (LongRead /\ LongComplete(last.at)
     /\ \E i \in 1..LongSize(last.at) : LongDigit(last.at, i) >= 32768)
    => FailsWith("DigitOutOfRange") /\ ~last.val.some

\* C13: a Long record with a count other than zero, of either sign, and a
\* last digit of zero fails with UnnormalizedLong; a count of zero reads no
\* digit and yields the integer zero.
C13_UnnormalizedLong ==
  (LongRead /\ LongComplete(last.at)) =>
    /\ LongSize(last.at) = 0 =>
         /\ result = Done(Ok(Obj_Long([sign |-> 0, mag |-> <<>>])))
         /\ pos = last.at + 5
    /\ (/\ LongSize(last.at) > 0
        /\ \A i \in 1..LongSize(last.at) : LongDigit(last.at, i) < 32768
        /\ LongDigit(last.at, LongSize(last.at)) = 0)
         => result = Done(Err(UnnormalizedLong))

C13_Witness ==
  /\ LongRead /\ LongComplete(last.at) /\ LongSize(last.at) = 2
  /\ LongNegative(last.at) /\ LongDigit(last.at, 1) = 32767
  /\ result = Done(Err(UnnormalizedLong))

----------------------------------------------------------------------------
\* Binary addition of two numbers given by their bits, least significant
\* first.
RECURSIVE AddBits(_, _, _)
AddBits(a, b, carry) ==
  IF a = <<>> /\ b = <<>> THEN (IF carry = 1 THEN <<1>> ELSE <<>>)
  ELSE LET digit(t) ==
             <<t % 2>> \o AddBits(IF a = <<>> THEN <<>> ELSE Tail(a),
                                  IF b = <<>> THEN <<>> ELSE Tail(b), t \div 2)
       IN digit((IF a = <<>> THEN 0 ELSE Head(a))
                + (IF b = <<>> THEN 0 ELSE Head(b)) + carry)

\* The sum of d_i * 2^(15 * (i - 1)) over the first n digits of the Long
\* record at `at`, in bits.
RECURSIVE LongSum(_, _)
LongSum(at, n) ==
  IF n = 0 THEN <<>>
  ELSE AddBits(LongSum(at, n - 1),
               [k \in 1..(15 * (n - 1)) |-> 0]
                 \o [k \in 1..16 |-> (LongDigit(at, n) \div Pow2(k - 1)) % 2],
               0)

\* C14: the value of an accepted Long record with digits d_0..d_(n-1) and
\* signed count c is sign(c) times the sum of d_i * 2^(15 * i).
C14_LongIsSumOfDigits ==
  (LongRead /\ LongComplete(last.at) /\ LongSize(last.at) >= 1 /\ last.val.some)
    => last.val.v =
         Obj_Long([sign |-> IF LongNegative(last.at) THEN -1 ELSE 1,
                   mag |-> TrimBits(LongSum(last.at, LongSize(last.at)))])

----------------------------------------------------------------------------
\* The payload of the Int (w = 4) or Int64 (w = 8) record at `at`, in bits.
IntWidth == IF last.type_ = "Int" THEN 4 ELSE 8
IntPayload == BitsOfBytes(SubSeq(readable, last.at + 2, last.at + 1 + IntWidth))

\* C15: Int and Int64 give the Long whose value is the little-endian
\* payload u when u < 2^(w-1), and u - 2^w otherwise (w = 32, 64).
C15_IntIsTwosComplement ==
  (last.op = "leaf" /\ last.type_ \in {"Int", "Int64"}
     /\ last.at + 1 + IntWidth <= Len(readable)) =>
    /\ last.val.some /\ last.val.v.t = "Long"
    /\ IF IntPayload[8 * IntWidth] = 0
         THEN last.val.v.v =
                [sign |-> IF TrimBits(IntPayload) = <<>> THEN 0 ELSE 1,
                 mag |-> TrimBits(IntPayload)]
         ELSE /\ last.val.v.v.sign = -1
              /\ last.val.v.v.mag = TrimBits(last.val.v.v.mag)
              /\ AddBits(last.val.v.v.mag, IntPayload, 0)
                   = [k \in 1..(8 * IntWidth + 1) |->
                        IF k = 8 * IntWidth + 1 THEN 1 ELSE 0]

C15_Witness ==
  /\ last.op = "leaf" /\ last.type_ = "Int64" /\ last.flag /\ last.val.some
  /\ last.val.v.v.sign = -1 /\ Len(last.val.v.v.mag) = 64

----------------------------------------------------------------------------
\* The k-th four-byte scalar field of the Code record whose tag is at `at`,
\* as written in the source.
CodeWord(at, k) == SubSeq(readable, at + 4 * k - 2, at + 4 * k + 1)
CodeReturned == last.op = "return" /\ last.type_ = "Code"
\* The flag bits of the masks 0x3FF and 0x1FF000.
KnownFlagBits ==
  {i \in 0..31 : \/ BitsOfBytes(<<255, 3, 0, 0>>)[i + 1] = 1
                 \/ BitsOfBytes(<<0, 240, 31, 0>>)[i + 1] = 1}
WireFlags(at) == CodeWord(at, IF has_posonlyargcount THEN 6 ELSE 5)

\* C16: the flags of a decoded Code are the bits of the wire value that are
\* known flags: unknown bits are dropped without failing the decode, known
\* bits that are set are kept.
C16_FlagsMasked ==
  /\ (last.op = "code" /\ last.at + (IF has_posonlyargcount THEN 25 ELSE 21)
                            <= Len(readable)) => ~Failing
  /\ CodeReturned =>
       last.val.v.v.flags =
         {i \in KnownFlagBits : BitsOfBytes(WireFlags(last.at))[i + 1] = 1}

C16_Witness ==
  /\ CodeReturned /\ result.set /\ result.ok
  /\ WireFlags(last.at) = <<255, 255, 255, 255>>
  /\ Cardinality(last.val.v.v.flags) = 19

----------------------------------------------------------------------------
\* What the object fields of GoodFields decode to.
GoodDecoded ==
  [code |-> <<100, 0>>, consts |-> <<Obj_None>>, names |-> <<<<120>>>>,
   varnames |-> <<<<120>>>>, freevars |-> <<>>, cellvars |-> <<<<120>>>>,
   filename |-> <<102>>, name |-> <<103>>, firstlineno |-> U32(3),
   lnotab |-> <<>>]

\* C17: without has_posonlyargcount no bytes are read for posonlyargcount,
\* which is 0, and kwonlyargcount is the word after argcount; with it the
\* word after argcount is posonlyargcount.  The other fields follow in the
\* same order in both modes.
C17_PosOnlyArgCount ==
  /\ (last.op = "code" /\ last.ok) =>
       pos = last.at + 1 + 4 * (IF has_posonlyargcount THEN 6 ELSE 5)
  /\ CodeReturned =>
       LET c == last.val.v.v
           at == last.at
           shift == IF has_posonlyargcount THEN 1 ELSE 0
       IN /\ c.argcount = CodeWord(at, 1)
          /\ c.posonlyargcount =
               IF has_posonlyargcount THEN CodeWord(at, 2) ELSE <<0, 0, 0, 0>>
          /\ c.kwonlyargcount = CodeWord(at, 2 + shift)
          /\ c.nlocals = CodeWord(at, 3 + shift)
          /\ c.stacksize = CodeWord(at, 4 + shift)
          /\ \A longs \in {5, 6}, flag \in BOOLEAN, flags \in FlagWords :
               (readable = CodeRec(flag, CodeWords(longs, flags), GoodFields)
                  /\ longs = 5 + shift)
                 => \A n \in DOMAIN GoodDecoded : c[n] = GoodDecoded[n]

C17_Witness ==
  /\ CodeReturned /\ result.set /\ result.ok /\ ~has_posonlyargcount
  /\ last.val.v.v.posonlyargcount = <<0, 0, 0, 0>>
  /\ last.val.v.v.kwonlyargcount = U32(3)
  /\ last.val.v.v.name = <<103>>

----------------------------------------------------------------------------
\* The value that makes x unfit for the k-th object field of Code (none when
\* it fits): x itself when it is of the wrong variant, else the first element
\* of a tuple of names that is not a String.
FieldOffender(k, x) ==
  CASE k \in {1, 9} -> IF x.t = "Bytes" THEN <<>> ELSE <<x>>
    [] k \in {7, 8} -> IF x.t = "String" THEN <<>> ELSE <<x>>
    [] k = 2 -> IF x.t = "Tuple" THEN <<>> ELSE <<x>>
    [] k \in 3..6 ->
         IF x.t /= "Tuple" THEN <<x>>
         ELSE SelectSeq(x.v, LAMBDA y : y.t /= "String")
FieldPayload(k, x) ==
  IF k \in 3..6 THEN [i \in 1..Len(x.v) |-> x.v[i].v] ELSE x.v

\* C18: a value read for an object field of Code is stored when it is of the
\* variant the field requires (Bytes for code and lnotab, Tuple for consts,
\* String for filename and name, Tuple of Strings for the four tuples of
\* names); otherwise the decode fails with TypeError carrying the value, or
\* the first element that is not a String.
C18_CodeFieldsTyped ==
  [][(last' /= last /\ last'.into = "Code" /\ last'.val.some) =>
       LET f == stack[last'.level - 1]
           k == Len(f.items) + 1
           bad == FieldOffender(k, last'.val.v)
       IN IF bad /= <<>>
            THEN /\ result'.set /\ ~result'.ok
                 /\ result'.err.kind = "TypeError"
                 /\ result'.err.obj.t = bad[1].t
                 /\ result'.err.obj = bad[1]
          ELSE \/ /\ ~result'.set
                  /\ stack'[Len(stack')].items
                       = Append(f.items, FieldPayload(k, last'.val.v))
               \/ k = 8 /\ result'.set /\ ~result'.ok /\ result'.err.kind = "Io"
    ]_vars

C18_Witness ==
  /\ last.into = "Code" /\ last.val.some /\ last.val.v.t = "Tuple"
  /\ Len(last.val.v.v) = 3 /\ last.val.v.v[1].t = "String"
  /\ result = Done(Err(TypeError(last.val.v.v[2])))

----------------------------------------------------------------------------
\* The source with bit 0x80 of the tag of its first record inverted.
FlagToggled(rd) == [rd EXCEPT ![1] = (@ + FLAG_REF) % 256]
\* No byte of the source is the tag of a Ref record, flagged or not.
NoRefRecord(rd) ==
  \A i \in 1..Len(rd) : rd[i] \notin {Type.Ref, Type.Ref + FLAG_REF}
\* Two finished decodes end alike: the same value over the same contents of
\* the handles, or an error of the same kind.
SameOutcome(a, b) ==
  /\ a.result.ok = b.result.ok
  /\ IF a.result.ok
       THEN /\ a.result.v.t = b.result.v.t
            /\ a.result.v = b.result.v
            /\ a.heap = b.heap
       ELSE a.result.err.kind = b.result.err.kind

\* marshal_load_ex returned a Result (the process did not end in a panic).
Returns == result.set /\ (result.ok \/ result.err.kind /= "Panic")

\* C19: a source without Ref records decodes to the same value, or fails with
\* the same kind of error, whether bit 0x80 of the tag of its record is set or
\* clear (both decodes returning); only the reference table may differ.
C19_FlagKeepsValue ==
  (Returns /\ family /= "deep" /\ Len(readable) > 0 /\ NoRefRecord(readable))
    => SameOutcome(St, marshal_load_ex(FlagToggled(readable), has_posonlyargcount))

C19_Witness ==
  /\ result.set /\ result.ok /\ family /= "deep" /\ NoRefRecord(readable)
  /\ readable[1] >= FLAG_REF /\ Len(refs) > 0
  /\ result.v.t \in {"Tuple", "List", "Set", "Dict", "Code"}
  /\ marshal_load_ex(FlagToggled(readable), has_posonlyargcount).refs /= refs

----------------------------------------------------------------------------
\* The step taken last entered a record whose tag byte was read with the
\* depth handle granted.
TagRead ==
  /\ last.op \notin {"new", "return"}
  /\ last.at < Len(readable) /\ last.level <= Depth_MAX
TagCode(at) == readable[at + 1] % FLAG_REF
TypeCodes == {Type[n] : n \in DOMAIN Type}

\* C20: a tag byte whose low seven bits are no type code fails with
\* InvalidType of those seven bits, and so does the code of Unknown, '?'.
C20_UnknownTagRejected ==
  (TagRead /\ (TagCode(last.at) \notin TypeCodes
                 \/ TagCode(last.at) = Type.Unknown))
    => result = Done(Err(InvalidType(TagCode(last.at))))

C20_Witness ==
  /\ TagRead /\ readable[last.at + 1] = Type.Unknown + FLAG_REF
  /\ Type.Unknown \in TypeCodes
  /\ result = Done(Err(InvalidType(63)))

----------------------------------------------------------------------------
\* The step taken last entered a record (read_object or a loop asked for one).
Entered == last.op \notin {"new", "return"}
\* The four bytes at offset `at` as an unsigned length, and as the magnitude
\* of a signed count; 65536, more than any source here holds, stands for the
\* lengths of more than two bytes.
WireLength(at) ==
  IF readable[at + 3] = 0 /\ readable[at + 4] = 0
    THEN readable[at + 1] + 256 * readable[at + 2] ELSE 65536
WireMagnitude(at) ==
  IF readable[at + 3] = 255 /\ readable[at + 4] = 255
       /\ readable[at + 1] + readable[at + 2] > 0
    THEN 65536 - (readable[at + 1] + 256 * readable[at + 2])
    ELSE WireLength(at)
TagName(at) == CHOOSE n \in DOMAIN Type : Type[n] = TagCode(at)
\* The bytes that the record whose tag is at `at` holds after the tag, up to
\* its first nested record: fixed-width fields, length prefix and payload.
\* `have` bytes follow the tag in the source.
WireNeed(at, have) ==
  LET t == TagName(at)
      prefixed(w) == IF have < w THEN w
                     ELSE w + (IF w = 1 THEN readable[at + 2] ELSE WireLength(at + 1))
  IN CASE t \in {"Int", "Ref", "Tuple", "List", "Set", "FrozenSet"} -> 4
       [] t \in {"Int64", "BinaryFloat"} -> 8
       [] t = "BinaryComplex" -> 16
       [] t = "SmallTuple" -> 1
       [] t = "Code" -> IF has_posonlyargcount THEN 24 ELSE 20
       [] t \in {"Float", "Complex"} \cup Text1 -> prefixed(1)
       [] t \in {"String"} \cup Text4 -> prefixed(4)
       [] t = "Long" -> IF have < 4 THEN 4 ELSE 4 + 2 * WireMagnitude(at + 1)
       [] OTHER -> 0
\* The source ends inside the record entered last: before its tag, or before
\* the bytes after the tag are complete.
ShortRead ==
  \/ last.at >= Len(readable)
  \/ /\ last.level <= Depth_MAX
     /\ TagCode(last.at) \in TypeCodes
     /\ Len(readable) - last.at - 1
          < WireNeed(last.at, Len(readable) - last.at - 1)
\* The digits of the Long at `at` that the source holds whole are 15-bit.
DigitsHeldInRange(at) ==
  \A i \in 1..((Len(readable) - at - 5) \div 2) :
    i <= WireMagnitude(at + 1) => LongDigit(at, i) < 32768

\* The source ends right after the count of the container entered last, which
\* announces children.
EndsAtCount ==
  /\ last.at + 5 = Len(readable) /\ last.level <= Depth_MAX
  /\ TagCode(last.at) \in TypeCodes
  /\ TagName(last.at) \in {"Tuple", "List", "Set", "FrozenSet"}
  /\ WireLength(last.at + 1) > 0

\* C21: when the source ends before the tag of a record, or before its
\* fixed-width fields, its length prefix or its payload are complete, the
\* decode fails with Io (unexpected EOF) at any depth of the tree, and
\* nothing else is returned.
C21_ShortReadIsIo ==
  /\ (Entered /\ ShortRead
        /\ (last.at < Len(readable) /\ TagName(last.at) = "Long"
              => DigitsHeldInRange(last.at)))
       => result = Done(Err(IoError)) /\ ~last.val.some
  /\ (Entered /\ EndsAtCount /\ result.set) => result = Done(Err(IoError))

----------------------------------------------------------------------------
\* The text or bytes record whose tag is at `at`, as written: the width of its
\* length prefix, its length and its payload.
TextPrefix(at) == IF TagName(at) \in Text1 THEN 1 ELSE 4
TextLength(at) ==
  IF TagName(at) \in Text1 THEN readable[at + 2] ELSE WireLength(at + 1)
TextPayload(at) ==
  SubSeq(readable, at + 2 + TextPrefix(at),
         at + 1 + TextPrefix(at) + TextLength(at))
\* The step taken last read a whole record of one of the types in ts.
TextRead(ts) ==
  /\ last.op = "leaf" /\ last.type_ \in ts
  /\ last.at + 1 + TextPrefix(last.at) <= Len(readable)
  /\ last.at + 1 + TextPrefix(last.at) + TextLength(last.at) <= Len(readable)

\* C22: Ascii, AsciiInterned, Unicode, Interned, ShortAscii and
\* ShortAsciiInterned decode to the String of exactly the payload bytes, and
\* fail with Utf8 when the payload is not UTF-8; `s` decodes to the Bytes of
\* the payload whether it is UTF-8 or not.
C22_TextIsPayload ==
  /\ TextRead(Text4 \cup Text1) =>
       /\ TextPayload(last.at) \in Utf8Payloads =>
            /\ last.val = Some(Obj_String(TextPayload(last.at)))
            /\ pos = last.at + 1 + TextPrefix(last.at) + TextLength(last.at)
            /\ ~FailsWith("Utf8")
       /\ TextPayload(last.at) \in NotUtf8Payloads =>
            result = Done(Err(Utf8Error)) /\ ~last.val.some
  /\ TextRead({"String"}) =>
       /\ last.val = Some(Obj_Bytes(TextPayload(last.at)))
       /\ ~FailsWith("Utf8")

C22_Witness ==
  /\ TextRead(Text4) /\ last.flag /\ last.level = 2
  /\ TextPayload(last.at) = <<237, 160, 128>>
  /\ result = Done(Err(Utf8Error))

----------------------------------------------------------------------------
\* Equality of hashable values as the claim words it: any NaN equals any NaN,
\* the two zeros are equal, tuples are equal element by element, frozensets
\* when each holds an equal of every element of the other.
SameFloat(a, b) ==
  IF "bits" \in DOMAIN a /\ "bits" \in DOMAIN b
    THEN \/ f64_is_nan(a.bits) /\ f64_is_nan(b.bits)
         \/ f64_is_zero(a.bits) /\ f64_is_zero(b.bits)
         \/ a.bits = b.bits /\ ~f64_is_nan(a.bits)
    ELSE a = b
RECURSIVE SameHashable(_, _)
SameHashable(a, b) ==
  /\ a.h = b.h
  /\ CASE a.h = "Float" -> SameFloat(a.v, b.v)
       [] a.h = "Complex" -> SameFloat(a.re, b.re) /\ SameFloat(a.im, b.im)
       [] a.h = "Tuple" ->
            /\ Len(a.v) = Len(b.v)
            /\ \A i \in 1..Len(a.v) : SameHashable(a.v[i], b.v[i])
       [] a.h = "FrozenSet" ->
            /\ \A i \in 1..Len(a.v) : \E j \in 1..Len(b.v) :
                 SameHashable(a.v[i], b.v[j])
            /\ \A j \in 1..Len(b.v) : \E i \in 1..Len(a.v) :
                 SameHashable(a.v[i], b.v[j])
       [] OTHER -> a = b
\* The elements of the set that the open call f is filling.
Elements(f, hp) == IF f.type_ = "Set" THEN hp[f.set].v ELSE f.items

\* C23: for the element x delivered to a set and every element e it holds,
\* e == x exactly when they are the same value (NaN with NaN, zero with
\* zero, tuples by elements, frozensets as sets), and then their hashes are
\* equal and x is found: the set keeps its elements; otherwise x is added.
C23_EqImpliesSameHash ==
  [][(last' /= last /\ last'.into \in {"Set", "FrozenSet"} /\ last'.val.some
        /\ ObjHashable_try_from(last'.val.v).ok) =>
       LET x == ObjHashable_try_from(last'.val.v).v
           S == Elements(stack[last'.level - 1], heap)
           T == Elements([stack[last'.level - 1] EXCEPT !.items =
                            IF ~result'.set /\ Len(stack') >= last'.level - 1
                              THEN stack'[last'.level - 1].items ELSE @],
                         heap')
       IN /\ \A i \in 1..Len(S) :
               /\ ObjHashable_eq(S[i], x) <=> SameHashable(S[i], x)
               /\ SameHashable(S[i], x) =>
                    ObjHashable_hash(S[i]) = ObjHashable_hash(x)
          /\ ~result'.set =>
               T = IF \E i \in 1..Len(S) : SameHashable(S[i], x)
                     THEN S ELSE Append(S, x)
    ]_vars

C23_Witness ==
  /\ last.into = "Set" /\ last.val.some /\ last.val.v.t = "FrozenSet"
  /\ Len(last.val.v.v) = 2 /\ last.val.v.v[1].h = "Float"
  /\ f64_is_zero(last.val.v.v[1].v.bits) /\ last.val.v.v[1].v.bits[8] = 128
  /\ ~result.set /\ Len(heap[Top.set].v) = 1
  /\ heap[Top.set].v[1].h = "FrozenSet" /\ heap[Top.set].v[1].v /= last.val.v.v

----------------------------------------------------------------------------
\* The kinds of enum Error.
ErrorKinds ==
  { "InvalidType", "RecursionLimitExceeded", "DigitOutOfRange",
    "UnnormalizedLong", "UnexpectedNull", "Unhashable", "TypeError",
    "InvalidRef", "Io", "Utf8", "ParseFloat" }

\* C24: the decode of any source ends in a value or in an error of one of the
\* kinds of Error and never in a panic; in particular the assertions of
\* biguint_from_pylong_digits and the index into the digits hold whatever
\* Long is read.
C24_DecodeIsTotal ==
  result.set => (result.ok \/ result.err.kind \in ErrorKinds)

----------------------------------------------------------------------------
\* C25: the depth is what it was before the tag of a record once the record
\* has finished: a record without nested records leaves it as it found it, a
\* container raises it by one for its children and its return brings it back
\* to the level the container was entered at, and a decode that ends, in a
\* value or an error, ends at the depth it began with.
C25_DepthRestored ==
  [][(last' /= last /\ last'.op \notin {"alloc", "new"}) =>
       /\ last'.op /= "return" => depth = last'.level
       /\ IF result'.set THEN depth' = 1
          ELSE IF last'.op \in {"leaf", "ref", "reject"} THEN depth' = depth
          ELSE IF last'.op = "return" THEN depth' = last'.level
          ELSE depth' = depth + 1
    ]_vars

C25_Witness ==
  /\ last.op = "return" /\ ~result.set /\ last.level = 2
  /\ Len(Top.items) >= 2 /\ depth = 2 /\ Top.type_ = "List"

----------------------------------------------------------------------------
\* The source from the tag of the record entered last on, decoded by itself.
Alone(rd, at) == marshal_load_ex(SubSeq(rd, at + 1, Len(rd)), has_posonlyargcount)

\* C26: the first failure ends the decode.  The step that fails leaves no
\* call open and returns the error of the record or read that failed, as
\* that record alone would give it, with the cursor where that read stopped;
\* no value is returned, and the decode that has ended takes no further
\* step: only a new call of marshal_load_ex follows.
C26_FirstErrorIsFinal ==
  [][/\ last'.op /= "new" => ~result.set
     /\ (result'.set /\ ~result'.ok /\ last'.op /= "alloc") =>
          LET own(r) ==
                /\ ~r.result.ok
                /\ r.result.err.kind = result'.err.kind
                /\ r.result.err = result'.err
                /\ pos' \in {last'.at + r.pos, Len(readable')}
                /\ (result'.err.kind /= "Io" => pos' = last'.at + r.pos)
          IN /\ stack' = <<>>
             /\ (last'.op \in {"leaf", "ref", "reject"} /\ ~last'.val.some
                   /\ family /= "deep"
                   /\ ~(last'.tagged /\ last'.type_ = "Ref"
                          /\ result'.err.kind = "InvalidRef"))
                  => own(Alone(readable', last'.at))
             /\ (last'.val.some /\ last'.op /= "return")
                  => result'.err.kind \in {"Unhashable", "TypeError", "Io"}
    ]_vars

C26_Witness ==
  /\ last.op = "leaf" /\ last.level = 2 /\ last.into = "Tuple" /\ stack = <<>>
  /\ result = Done(Err(Utf8Error)) /\ pos < Len(readable)

----------------------------------------------------------------------------
\* C27: a Ref record that resolves and whose tag is flagged appends the value
\* it resolved to at the end of the reference table, which grows by one; a
\* Ref record that is not flagged, or that does not resolve, leaves the
\* table as it was.
C27_FlaggedRefAppends ==
  [][(last' /= last /\ last'.op = "ref") =>
       IF last'.val.some /\ last'.flag
         THEN /\ Len(refs') = Len(refs) + 1
              /\ refs' = Append(refs, last'.val.v)
              /\ \E i \in 1..Len(refs) : refs[i] = last'.val.v
         ELSE refs' = refs
    ]_vars

C27_Witness ==
  /\ last.op = "ref" /\ last.flag /\ last.val.some /\ ~result.set
  /\ Len(refs) >= 2 /\ refs[Len(refs)] = last.val.v
  /\ \E i \in 1..(Len(refs) - 1) : refs[i] = last.val.v

----------------------------------------------------------------------------
\* C28: the checks of a record run in the order tag byte, depth, type code,
\* and a slot of the reference table is reserved only once all three have
\* passed: without a tag byte the record fails with Io, with one at level 901
\* it fails with RecursionLimitExceeded whatever the type code, with an
\* unknown code at a level within the limit it fails with InvalidType, and a
\* record that fails one of the checks leaves the reference table as it was.
C28_ChecksInOrder ==
  [][(last' /= last /\ last'.op \notin {"new", "return"}) =>
       LET tag == last'.at < Len(readable')
           code == readable'[last'.at + 1] % FLAG_REF
           deep == last'.level > Depth_MAX
           unknown == code \notin TypeCodes \/ code = Type.Unknown
       IN /\ ~tag => result' = Done(Err(IoError)) /\ refs' = refs
          /\ (tag /\ deep) =>
               result' = Done(Err(RecursionLimitExceeded)) /\ refs' = refs
          /\ (tag /\ ~deep /\ unknown) =>
               result' = Done(Err(InvalidType(code))) /\ refs' = refs
          /\ Len(refs') > Len(refs) => (tag /\ ~deep /\ ~unknown)
    ]_vars

C28_Witness ==
  /\ last.level = Depth_MAX + 1 /\ last.at < Len(readable)
  /\ readable[last.at + 1] % FLAG_REF \notin TypeCodes
  /\ result = Done(Err(RecursionLimitExceeded)) /\ refs = <<>>

----------------------------------------------------------------------------
\* The digits of the Long at `at` that the source holds whole, and those of
\* them that are 2^15 or more.
LongHeld(at) ==
  LET whole == (Len(readable) - at - 5) \div 2
  IN IF whole < LongSize(at) THEN whole ELSE LongSize(at)
LongOutOfRange(at) == { i \in 1..LongHeld(at) : LongDigit(at, i) >= 32768 }
LongFirstOutOfRange(at) ==
  CHOOSE i \in LongOutOfRange(at) : \A j \in LongOutOfRange(at) : i <= j

\* C29: in a Long record each digit is checked for its range as it is read
\* and the top digit is checked only after all digits were read: the first
\* digit of 2^15 or more that the source holds fails the record with
\* DigitOutOfRange, also when the top digit is zero or the source ends right
\* after it; digits in range that end before the count is reached fail it
\* with Io, also when all of them are zero; and UnnormalizedLong is returned
\* only when all digits were read and are in range.
C29_DigitsThenTopDigit ==
  (LongRead /\ LongHasCount(last.at)) =>
    /\ LongOutOfRange(last.at) /= {} =>
         result = Done(Err(DigitOutOfRange(
                    LongDigit(last.at, LongFirstOutOfRange(last.at)))))
    /\ (LongOutOfRange(last.at) = {} /\ LongHeld(last.at) < LongSize(last.at))
         => result = Done(Err(IoError))
    /\ FailsWith("UnnormalizedLong") =>
         /\ LongOutOfRange(last.at) = {}
         /\ LongHeld(last.at) = LongSize(last.at)

----------------------------------------------------------------------------
\* C30: a decode reads one record.  When it succeeds the cursor stands right
\* after the last byte of the record (the bytes up to the cursor decode to
\* the same value, one byte less is a short read), whatever follows is not
\* read and causes no error; and a decode started afterwards on the same
\* source gets the bytes from the cursor on, with an empty reference table
\* and no record open.
C30_OneRecordPerDecode ==
  [][/\ (result'.set /\ result'.ok /\ family /= "deep") =>
          LET same(r) ==
                /\ r.result.ok
                /\ r.result.v.t = result'.v.t /\ r.result.v = result'.v
                /\ r.pos = pos'
              short(r) == ~r.result.ok /\ r.result.err.kind = "Io"
          IN /\ 0 < pos' /\ pos' <= Len(readable')
             /\ same(marshal_load_ex(SubSeq(readable', 1, pos'),
                                     has_posonlyargcount))
             /\ short(marshal_load_ex(SubSeq(readable', 1, pos' - 1),
                                      has_posonlyargcount))
     /\ last'.op = "new" =>
          /\ readable' = SubSeq(readable, pos + 1, Len(readable))
          /\ pos' = 0 /\ refs' = <<>> /\ heap' = <<>>
          /\ depth' = 1 /\ stack' = <<>> /\ ~result'.set
    ]_vars

C30_Witness ==
  /\ readable = ShortStr(TRUE, <<98>>) \o RefRec(FALSE, 0)
  /\ result.set /\ result.ok /\ pos = 3 /\ Len(refs) = 1
====
